---- MODULE Spec2Model ----
(***************************************************************************)
(* Room service of the team-dividing platform (server/src/modules/room):   *)
(* the room lifecycle over the two repositories (room, room_member), the   *)
(* Pusher publisher, and the constrained two-team partition solver.        *)
(*                                                                         *)
(* Every `await` of a handler is one atomic step of the model; between two *)
(* steps of one call any step of another call may run (Node's event loop,  *)
(* no transaction and no lock is taken anywhere in RoomService).           *)
(***************************************************************************)
EXTENDS Integers, Sequences, FiniteSets, TLC

(***************************************************************************)
(* Small helpers                                                           *)
(***************************************************************************)
Range(s) == {s[i] : i \in 1..Len(s)}

\* Math.abs replaced by the identity
NoAbs(x) == x

Abs(x) == IF x < 0 THEN -x ELSE x

RECURSIVE Pow2(_)
Pow2(n) == IF n = 0 THEN 1 ELSE 2 * Pow2(n - 1)

\* number of elements of s satisfying Test (Array.prototype.filter(..).length)
CountIf(s, Test(_)) == Cardinality({i \in 1..Len(s) : Test(s[i])})

\* index of the first element satisfying Test, 0 when none (Array.prototype.find)
FindIndex(s, Test(_)) ==
  IF \E i \in 1..Len(s) : Test(s[i])
  THEN CHOOSE i \in 1..Len(s) : Test(s[i]) /\ \A j \in 1..(i - 1) : ~Test(s[j])
  ELSE 0

\* m.labels?.includes(label)
HasLabel(m, label) == label \in Range(m.labels)

Null == [null |-> TRUE]

(***************************************************************************)
(* Vocabulary (room-member.entity MemberLabel, room.entity LabelRule)      *)
(***************************************************************************)
MemberLabel == {"god", "sister", "male", "boss"}
LabelRule == {"none", "even", "same_team"}

\* The two literal nicknames of the hidden pairing rule (U+8473 U+8564 and
\* U+5154 U+5B50 in the source), written in ASCII here.
WeiRui == "weirui"
TuZi == "tuzi"

(***************************************************************************)
(* Partition solver.  A member is a record with at least id, nick, labels  *)
(* (labels a sequence); a rules map is the sequence of its entries         *)
(* <<label, rule>> in Object.entries order.                                *)
(***************************************************************************)
\* Object.entries(labelRules).filter(rule === 'even').map(label)
EvenLabelsOf(rules) ==
  LET ev == SelectSeq(rules, LAMBDA e : e[2] = "even")
  IN [i \in 1..Len(ev) |-> ev[i][1]]

\* Object.entries(labelRules).find(rule === 'same_team')?.[0] || null  ("" is null)
SameTeamLabelOf(rules) ==
  LET k == FindIndex(rules, LAMBDA e : e[2] = "same_team")
  IN IF k = 0 THEN "" ELSE rules[k][1]

\* the label penalty that counts the first even label only
LabelPenaltyFirstOnly(teamA, teamB, evenLabels, k) ==
  IF k > Len(evenLabels) \/ k > 1 THEN 0
  ELSE Abs(CountIf(teamA, LAMBDA m : HasLabel(m, evenLabels[k]))
             - CountIf(teamB, LAMBDA m : HasLabel(m, evenLabels[k]))) * 5

RECURSIVE LabelPenalty(_, _, _, _)
LabelPenalty(teamA, teamB, evenLabels, k) ==
  IF k > Len(evenLabels) THEN 0
  ELSE LET countA == CountIf(teamA, LAMBDA m : HasLabel(m, evenLabels[k]))
           countB == CountIf(teamB, LAMBDA m : HasLabel(m, evenLabels[k]))
       IN Abs(countA - countB) * 5 + LabelPenalty(teamA, teamB, evenLabels, k + 1)

\* the score without its size term
ScoreLabelsOnly(teamA, teamB, evenLabels) == LabelPenalty(teamA, teamB, evenLabels, 1)

calculateScore(teamA, teamB, evenLabels) ==
  LabelPenalty(teamA, teamB, evenLabels, 1) + Abs(Len(teamA) - Len(teamB)) * 3

\* the SAME_TEAM hard-constraint test used by both solvers: inA && inB
SplitsSameTeam(teamA, teamB, sameTeamLabel) ==
  /\ sameTeamLabel # ""
  /\ \E m \in Range(teamA) : HasLabel(m, sameTeamLabel)
  /\ \E m \in Range(teamB) : HasLabel(m, sameTeamLabel)

\* the teams of one bitmask: bit i (0-based) set sends members[i] to A
MaskTeams(members, prot, mask) ==
  LET inA(i) == (mask \div Pow2(i - 1)) % 2 = 1
      idxA == SelectSeq([i \in 1..Len(members) |-> i], inA)
      idxB == SelectSeq([i \in 1..Len(members) |-> i], LAMBDA i : ~inA(i))
  IN [teamA |-> prot.teamA \o [k \in 1..Len(idxA) |-> members[idxA[k]]],
      teamB |-> prot.teamB \o [k \in 1..Len(idxB) |-> members[idxB[k]]]]

NoProtected == [teamA |-> <<>>, teamB |-> <<>>]

\* an enumeration that skips no mask: the loop without its `continue`
CSPNeverSkips(teamA, teamB, sameTeamLabel) == FALSE

\* whether a mask is skipped by the hard-constraint check of the enumeration
CSPSkipsMask(teamA, teamB, sameTeamLabel) == SplitsSameTeam(teamA, teamB, sameTeamLabel)

\* the enumeration with <= for <: the last minimum wins
solveWithCSPLastBest(members, evenLabels, sameTeamLabel, prot) ==
  LET n == Len(members)
      p == IF prot = Null THEN NoProtected ELSE prot
      masks == 0..(Pow2(n) - 1)
      teams == [mask \in masks |-> MaskTeams(members, p, mask)]
      valid == {mask \in masks :
                  ~CSPSkipsMask(teams[mask].teamA, teams[mask].teamB, sameTeamLabel)}
      score == [mask \in valid |->
                  calculateScore(teams[mask].teamA, teams[mask].teamB, evenLabels)]
      \* score <= bestScore keeps the last (highest) mask of minimum score
      best == CHOOSE mask \in valid : \A o \in valid :
                \/ score[mask] < score[o]
                \/ score[mask] = score[o] /\ mask >= o
  IN IF n = 0 /\ prot # Null THEN [teamA |-> prot.teamA, teamB |-> prot.teamB]
     ELSE IF valid = {} THEN [teamA |-> <<>>, teamB |-> <<>>]
     ELSE teams[best]

\* prot is Null or [teamA, teamB]
solveWithCSP(members, evenLabels, sameTeamLabel, prot) ==
  LET n == Len(members)
      p == IF prot = Null THEN NoProtected ELSE prot
      masks == 0..(Pow2(n) - 1)
      teams == [mask \in masks |-> MaskTeams(members, p, mask)]
      valid == {mask \in masks :
                  ~CSPSkipsMask(teams[mask].teamA, teams[mask].teamB, sameTeamLabel)}
      score == [mask \in valid |->
                  calculateScore(teams[mask].teamA, teams[mask].teamB, evenLabels)]
      \* score < bestScore keeps the first (lowest) mask of minimum score
      best == CHOOSE mask \in valid : \A o \in valid :
                \/ score[mask] < score[o]
                \/ score[mask] = score[o] /\ mask <= o
  IN IF n = 0 /\ prot # Null THEN [teamA |-> prot.teamA, teamB |-> prot.teamB]
     ELSE IF valid = {} THEN [teamA |-> <<>>, teamB |-> <<>>]
     ELSE teams[best]

(***************************************************************************)
(* Greedy + 2-opt fallback                                                 *)
(***************************************************************************)
maxIterations == 100

\* (a.labels || []).filter(l => evenLabels.includes(l)).length
EvenCount(m, evenLabels) == CountIf(m.labels, LAMBDA l : l \in Range(evenLabels))

\* remaining.sort((a, b) => bCount - aCount): stable, descending by EvenCount
RECURSIVE SortFrom(_, _, _)
SortFrom(remaining, evenLabels, k) ==
  IF k < 0 THEN <<>>
  ELSE SelectSeq(remaining, LAMBDA m : EvenCount(m, evenLabels) = k)
         \o SortFrom(remaining, evenLabels, k - 1)

SortByEvenCount(remaining, evenLabels) ==
  LET top == IF remaining = <<>> THEN 0
             ELSE CHOOSE c \in {EvenCount(m, evenLabels) : m \in Range(remaining)} :
                    \A m \in Range(remaining) : EvenCount(m, evenLabels) <= c
  IN SortFrom(remaining, evenLabels, top)

\* Step 2: each member goes to the side of lower score, A on ties
RECURSIVE GreedyAssign(_, _, _, _, _)
GreedyAssign(remaining, k, teamA, teamB, evenLabels) ==
  IF k > Len(remaining) THEN [teamA |-> teamA, teamB |-> teamB]
  ELSE LET member == remaining[k]
           scoreIfA == calculateScore(Append(teamA, member), teamB, evenLabels)
           scoreIfB == calculateScore(teamA, Append(teamB, member), evenLabels)
       IN IF scoreIfA <= scoreIfB
          THEN GreedyAssign(remaining, k + 1, Append(teamA, member), teamB, evenLabels)
          ELSE GreedyAssign(remaining, k + 1, teamA, Append(teamB, member), evenLabels)

\* [teamA[i], teamB[j]] = [teamB[j], teamA[i]]
SwapAt(teamA, teamB, i, j) ==
  [teamA |-> [teamA EXCEPT ![i] = teamB[j]], teamB |-> [teamB EXCEPT ![j] = teamA[i]]]

\* a 2-opt that exchanges protected members too
SwapsProtected(teamA, teamB, i, j, protectedIds) == TRUE

\* whether position i of A and j of B may be exchanged at all
Swappable(teamA, teamB, i, j, protectedIds) ==
  teamA[i].id \notin protectedIds /\ teamB[j].id \notin protectedIds

\* a sweep that also commits swaps of equal score (<= for <)
NotWorseningSwaps(teamA, teamB, evenLabels, sameTeamLabel, protectedIds) ==
  LET currentScore == calculateScore(teamA, teamB, evenLabels)
  IN {ij \in (1..Len(teamA)) \X (1..Len(teamB)) :
        /\ Swappable(teamA, teamB, ij[1], ij[2], protectedIds)
        /\ LET sw == SwapAt(teamA, teamB, ij[1], ij[2])
           IN /\ ~SplitsSameTeam(sw.teamA, sw.teamB, sameTeamLabel)
              /\ calculateScore(sw.teamA, sw.teamB, evenLabels) <= currentScore}

\* the pairs one sweep would commit: swappable, constraint kept, score strictly lower
ImprovingSwaps(teamA, teamB, evenLabels, sameTeamLabel, protectedIds) ==
  LET currentScore == calculateScore(teamA, teamB, evenLabels)
  IN {ij \in (1..Len(teamA)) \X (1..Len(teamB)) :
        /\ Swappable(teamA, teamB, ij[1], ij[2], protectedIds)
        /\ LET sw == SwapAt(teamA, teamB, ij[1], ij[2])
           IN /\ ~SplitsSameTeam(sw.teamA, sw.teamB, sameTeamLabel)
              /\ calculateScore(sw.teamA, sw.teamB, evenLabels) < currentScore}

\* Step 3: while (improved && iterations < limit): the first improving swap in
\* (i, j) scan order is committed and the sweep restarts; iterations counts
\* the sweeps that committed
RECURSIVE TwoOptUpTo(_, _, _, _, _, _, _)
TwoOptUpTo(teamA, teamB, evenLabels, sameTeamLabel, protectedIds, iterations, limit) ==
  LET cands == ImprovingSwaps(teamA, teamB, evenLabels, sameTeamLabel, protectedIds)
      first == CHOOSE ij \in cands : \A o \in cands :
                 ij[1] < o[1] \/ (ij[1] = o[1] /\ ij[2] <= o[2])
      sw == SwapAt(teamA, teamB, first[1], first[2])
  IN IF iterations >= limit \/ cands = {}
     THEN [teamA |-> teamA, teamB |-> teamB, iterations |-> iterations]
     ELSE TwoOptUpTo(sw.teamA, sw.teamB, evenLabels, sameTeamLabel, protectedIds,
                     iterations + 1, limit)

\* greedyWithTwoOpt's default: maxIterations: number = 100
TwoOpt(teamA, teamB, evenLabels, sameTeamLabel, protectedIds, iterations) ==
  TwoOptUpTo(teamA, teamB, evenLabels, sameTeamLabel, protectedIds, iterations, maxIterations)

\* the members the same_team pass fixes: members carrying sameTeamLabel
SameTeamHolders(members, sameTeamLabel, protectedIds) ==
  SelectSeq(members, LAMBDA m : m.id \notin protectedIds /\ sameTeamLabel # ""
                                  /\ HasLabel(m, sameTeamLabel))

\* Steps 1 and 2 of greedyWithTwoOpt: the teams before 2-opt and the ids it
\* may not move.  randomA: the outcome of Math.random() < 0.5 for sameTeamTarget
GreedyStart(members, evenLabels, sameTeamLabel, prot, randomA) ==
  LET p == IF prot = Null THEN NoProtected ELSE prot
      protectedIds0 == {m.id : m \in Range(p.teamA \o p.teamB)}
      inA == \E m \in Range(p.teamA) : HasLabel(m, sameTeamLabel)
      inB == \E m \in Range(p.teamB) : HasLabel(m, sameTeamLabel)
      sameTeamTarget == IF sameTeamLabel = "" THEN ""
                        ELSE IF inA THEN "A" ELSE IF inB THEN "B"
                        ELSE IF randomA THEN "A" ELSE "B"
      holders == SameTeamHolders(members, sameTeamLabel, protectedIds0)
      remaining == SelectSeq(members, LAMBDA m : /\ m.id \notin protectedIds0
                                                 /\ ~(sameTeamLabel # "" /\ HasLabel(m, sameTeamLabel)))
      teamA1 == IF sameTeamTarget = "A" THEN p.teamA \o holders ELSE p.teamA
      teamB1 == IF sameTeamTarget = "A" THEN p.teamB ELSE p.teamB \o holders
      g == GreedyAssign(SortByEvenCount(remaining, evenLabels), 1, teamA1, teamB1, evenLabels)
  IN [teamA |-> g.teamA, teamB |-> g.teamB,
      protectedIds |-> protectedIds0 \cup {m.id : m \in Range(holders)}]

greedyWithTwoOpt(members, evenLabels, sameTeamLabel, prot, randomA) ==
  LET g == GreedyStart(members, evenLabels, sameTeamLabel, prot, randomA)
      r == TwoOpt(g.teamA, g.teamB, evenLabels, sameTeamLabel, g.protectedIds, 0)
  IN [teamA |-> r.teamA, teamB |-> r.teamB]

(***************************************************************************)
(* divideWithRules.  rnd carries the outcomes of the Math.random() calls:  *)
(* rnd.pair (< 0.9, hidden rule taken), rnd.pairA (pair goes to team A),   *)
(* rnd.targetA (same_team target side of the fallback).                    *)
(***************************************************************************)
cspLimit == 12

RemoveAt(s, i) == SubSeq(s, 1, i - 1) \o SubSeq(s, i + 1, Len(s))

\* the pre-assigned pair is not taken off the list handed to the solver
KeepsPairOnList(members, iw, it) == members

\* the members left for the solver once the special pair is pre-assigned
RemainingAfterPair(members, iw, it) ==
  LET keep == SelectSeq([i \in 1..Len(members) |-> i], LAMBDA i : i # iw /\ i # it)
  IN [k \in 1..Len(keep) |-> members[keep[k]]]

divideWithRules(members, labelRules, rnd) ==
  LET evenLabels == EvenLabelsOf(labelRules)
      sameTeamLabel == SameTeamLabelOf(labelRules)
      iw == FindIndex(members, LAMBDA m : m.nick = WeiRui)
      it == FindIndex(members, LAMBDA m : m.nick = TuZi)
      hasSpecialPair == iw # 0 /\ it # 0
      taken == hasSpecialPair /\ rnd.pair
      prot == IF ~taken THEN Null
              ELSE IF rnd.pairA THEN [teamA |-> <<members[iw], members[it]>>, teamB |-> <<>>]
              ELSE [teamA |-> <<>>, teamB |-> <<members[iw], members[it]>>]
      remainingMembers == IF taken THEN RemainingAfterPair(members, iw, it) ELSE members
  IN IF Len(members) = 0 THEN [teamA |-> <<>>, teamB |-> <<>>]
     ELSE IF Len(members) = 1 THEN [teamA |-> <<members[1]>>, teamB |-> <<>>]
     ELSE IF Len(remainingMembers) <= cspLimit
     THEN solveWithCSP(remainingMembers, evenLabels, sameTeamLabel, prot)
     ELSE greedyWithTwoOpt(remainingMembers, evenLabels, sameTeamLabel, prot, rnd.targetA)

(***************************************************************************)
(* Database and in-flight calls                                            *)
(***************************************************************************)
Users == {"u1", "u2", "u3"}
Codes == {"c1", "c2"}

\* user.nickname of the users of the room model (none carries a special name)
nickname(u) == u

VARIABLES
  rooms,    \* room table, by room_code (unique): a Room row or NoRoom
  members,  \* room_member table: sequence of rows in insertion order
  nextId,   \* next generated primary key (rooms and members)
  events,   \* what reached pusher.trigger, in call order, and the request it came from
  calls,    \* the in-flight request of every slot
  ncalls,   \* requests admitted so far (past their first load)
  trace,    \* which responses are recorded: "off", "all", or only the "last"
  resp,     \* the recorded responses
  solver,   \* the solver run of the solver specification
  pusher,   \* whether pusher.trigger resolves (TRUE) or rejects (FALSE)
  client,   \* the MiniProgramPusher of the client specification, with its sockets
  page,     \* the room page of the page specification
  polling   \* the PollingService of the polling specification

vars == <<rooms, members, nextId, events, calls, ncalls, trace, resp, solver, pusher, client,
          page, polling>>

NoRoom == [id |-> 0]

World ==
  [rooms |-> rooms, members |-> members, nextId |-> nextId, events |-> events,
   pusher |-> pusher]

\* a request: its number, op, program point, caller, room code, argument, loaded
\* room, pending member updates, loop counter, outcome
NewCall(op, user, code, arg) ==
  [id |-> 0, op |-> op, pc |-> "load", user |-> user, code |-> code, arg |-> arg,
   snap |-> Null, todo |-> <<>>, i |-> 0, res |-> ""]

Idle == [id |-> 0, op |-> "idle", pc |-> "done", user |-> "", code |-> "", arg |-> Null,
         snap |-> Null, todo |-> <<>>, i |-> 0, res |-> ""]

\* the handler returns or throws: the request is over
Return(w, c, res) ==
  [w |-> w, c |-> [c EXCEPT !.pc = "done", !.res = res, !.snap = Null, !.todo = <<>>, !.i = 0]]

Goto(w, c, pc) == [w |-> w, c |-> [c EXCEPT !.pc = pc]]

(***************************************************************************)
(* Repository operations                                                   *)
(***************************************************************************)
RoomExists(w, roomId) == \E code \in Codes : w.rooms[code].id = roomId

CodeOf(w, roomId) == CHOOSE code \in Codes : w.rooms[code].id = roomId

\* relations: ['owner', 'members', 'members.user']
LoadMembers(w, roomId) ==
  LET rows == SelectSeq(w.members, LAMBDA m : m.roomId = roomId)
  IN [k \in 1..Len(rows) |->
        [id |-> rows[k].id, roomId |-> rows[k].roomId, userId |-> rows[k].userId,
         team |-> rows[k].team, labels |-> rows[k].labels, nick |-> nickname(rows[k].userId)]]

getRoomByCode(w, roomCode) ==
  IF w.rooms[roomCode] = NoRoom THEN Null
  ELSE [room |-> w.rooms[roomCode], members |-> LoadMembers(w, w.rooms[roomCode].id)]

\* memberRepository.save(create({roomId, userId, team: NONE})): the foreign key
\* room_id and the unique (roomId, userId) reject the insert
addMember(w, roomId, userId) ==
  IF ~RoomExists(w, roomId)
     \/ \E m \in Range(w.members) : m.roomId = roomId /\ m.userId = userId
  THEN [ok |-> FALSE, w |-> w]
  ELSE [ok |-> TRUE,
        w |-> [w EXCEPT !.members = Append(@, [id |-> w.nextId, roomId |-> roomId,
                                               userId |-> userId, team |-> "none",
                                               labels |-> <<>>]),
                        !.nextId = @ + 1]]

\* memberRepository.delete(criteria)
DeleteMembers(w, Match(_)) ==
  [w EXCEPT !.members = SelectSeq(@, LAMBDA m : ~Match(m))]

\* memberRepository.update(criteria, {team}) / update(id, {labels})
UpdateMembers(w, Match(_), field, value) ==
  LET rows == w.members
  IN [w EXCEPT !.members = [k \in 1..Len(rows) |->
                              IF Match(rows[k]) THEN [rows[k] EXCEPT ![field] = value]
                              ELSE rows[k]]]

\* roomRepository.save(room): writes the columns of the in-memory row; a row that
\* is gone is inserted again, unless its room_code is taken by now.  The cascade
\* of save() to the loaded room.members (room.entity: cascade true) is left out:
\* only the room row is written.
SaveRoom(w, row) ==
  IF RoomExists(w, row.id)
  THEN [ok |-> TRUE, w |-> [w EXCEPT !.rooms[CodeOf(w, row.id)] = row]]
  ELSE IF w.rooms[row.roomCode] = NoRoom
  THEN [ok |-> TRUE, w |-> [w EXCEPT !.rooms[row.roomCode] = row]]
  ELSE [ok |-> FALSE, w |-> w]

\* roomRepository.delete({id}) with no cascade to room_member
DeleteRoomOnly(w, roomId) ==
  IF ~RoomExists(w, roomId) THEN w
  ELSE [w EXCEPT !.rooms[CodeOf(w, roomId)] = NoRoom]

\* roomRepository.delete({id}); room_member.room_id is ON DELETE CASCADE
DeleteRoom(w, roomId) ==
  IF ~RoomExists(w, roomId) THEN w
  ELSE DeleteMembers([w EXCEPT !.rooms[CodeOf(w, roomId)] = NoRoom],
                     LAMBDA m : m.roomId = roomId)

(***************************************************************************)
(* Publisher                                                               *)
(***************************************************************************)
formatRoomData(room) ==
  [id |-> room.room.id, roomCode |-> room.room.roomCode, status |-> room.room.status,
   maxMembers |-> room.room.maxMembers, ownerId |-> room.room.ownerId,
   labelRules |-> room.room.labelRules,
   members |-> [k \in 1..Len(room.members) |->
                  [id |-> room.members[k].userId, team |-> room.members[k].team,
                   labels |-> room.members[k].labels]],
   memberCount |-> Len(room.members),
   divisionResult |-> room.room.divisionResult]

\* pusherService.triggerRoomEvent(roomCode, event, data), called by request c:
\* the event reaches the channel when pusher.trigger resolves
Publish(w, c, roomCode, event, data) ==
  IF w.pusher
  THEN [w EXCEPT !.events = Append(@, [channel |-> roomCode, event |-> event, data |-> data,
                                       by |-> [id |-> c.id, op |-> c.op, user |-> c.user]])]
  ELSE w

\* triggerRoomEvent without its try/catch: the rejection of pusher.trigger
\* reaches the handler that awaits it
TriggerRethrown(w, c, r) == IF w.pusher THEN r ELSE Return(w, c, "Internal")

\* what the handler does after await triggerRoomEvent: the catch logs the
\* rejection of pusher.trigger, so the handler goes on with r either way
AfterTrigger(w, c, r) == r

\* the common tail of a mutation: getRoomByCode again and, in the same turn of
\* the event loop, the call of pusher.trigger with that snapshot
ReloadStep(w, c, event) ==
  LET updatedRoom == getRoomByCode(w, c.code)
  IN IF updatedRoom = Null THEN Return(w, c, "NotFound")
     ELSE AfterTrigger(w, c, Return(Publish(w, c, c.code, event,
                                            [room |-> formatRoomData(updatedRoom)]), c, "ok"))

(***************************************************************************)
(* RoomService handlers, one step per await                                *)
(***************************************************************************)
maxAttempts == 10
defaultMaxMembers == 10

\* the existingMember lookup that finds nobody
NeverMember(room, userId) == FALSE

IsMember(room, userId) == \E m \in Range(room.members) : m.userId = userId

\* the capacity check with > for >=
RoomOverFull(room) == Len(room.members) > room.room.maxMembers

\* room.members.length >= room.maxMembers
RoomIsFull(room) == Len(room.members) >= room.room.maxMembers

\* findOne({ownerId: userId, status: WAITING})
HasWaitingRoom(w, userId) ==
  \E code \in Codes : /\ w.rooms[code] # NoRoom
                      /\ w.rooms[code].ownerId = userId
                      /\ w.rooms[code].status = "waiting"

\* generateRoomCode whose loop runs for i <= maxAttempts
createRoomOneMoreLookup(w, c, sample) ==
  CASE c.pc = "load" ->
         IF HasWaitingRoom(w, c.user) THEN Return(w, c, "HasActiveRoom")
         ELSE Goto(w, c, "generate")
    [] c.pc = "generate" ->
         IF w.rooms[sample] = NoRoom
         THEN [w |-> w, c |-> [c EXCEPT !.pc = "saveRoom", !.code = sample, !.i = 0]]
         ELSE IF c.i + 1 > maxAttempts THEN Return(w, c, "CodeExhausted")
         ELSE [w |-> w, c |-> [c EXCEPT !.i = @ + 1]]
    [] c.pc = "saveRoom" ->
         IF w.rooms[c.code] # NoRoom THEN Return(w, c, "Internal")
         ELSE LET room == [id |-> w.nextId, roomCode |-> c.code, ownerId |-> c.user,
                           status |-> "waiting",
                           maxMembers |-> IF c.arg = 0 THEN defaultMaxMembers ELSE c.arg,
                           labelRules |-> <<>>, divisionResult |-> Null]
              IN [w |-> [w EXCEPT !.rooms[c.code] = room, !.nextId = @ + 1],
                  c |-> [c EXCEPT !.pc = "addOwner", !.snap = [room |-> room, members |-> <<>>]]]
    [] c.pc = "addOwner" ->
         LET r == addMember(w, c.snap.room.id, c.user)
         IN IF r.ok THEN Goto(r.w, c, "reload") ELSE Return(w, c, "Internal")
    [] c.pc = "reload" ->
         IF getRoomByCode(w, c.code) = Null THEN Return(w, c, "NotFound")
         ELSE Return(w, c, "ok")

\* createRoom; sample is the code drawn by this attempt of generateRoomCode,
\* c.arg is dto.maxMembers (0 when absent)
createRoomStep(w, c, sample) ==
  CASE c.pc = "load" ->
         IF HasWaitingRoom(w, c.user) THEN Return(w, c, "HasActiveRoom")
         ELSE Goto(w, c, "generate")
    [] c.pc = "generate" ->
         IF w.rooms[sample] = NoRoom
         THEN [w |-> w, c |-> [c EXCEPT !.pc = "saveRoom", !.code = sample, !.i = 0]]
         ELSE IF c.i + 1 >= maxAttempts THEN Return(w, c, "CodeExhausted")
         ELSE [w |-> w, c |-> [c EXCEPT !.i = @ + 1]]
    [] c.pc = "saveRoom" ->
         IF w.rooms[c.code] # NoRoom THEN Return(w, c, "Internal")
         ELSE LET room == [id |-> w.nextId, roomCode |-> c.code, ownerId |-> c.user,
                           status |-> "waiting",
                           maxMembers |-> IF c.arg = 0 THEN defaultMaxMembers ELSE c.arg,
                           labelRules |-> <<>>, divisionResult |-> Null]
              IN [w |-> [w EXCEPT !.rooms[c.code] = room, !.nextId = @ + 1],
                  c |-> [c EXCEPT !.pc = "addOwner", !.snap = [room |-> room, members |-> <<>>]]]
    [] c.pc = "addOwner" ->
         LET r == addMember(w, c.snap.room.id, c.user)
         IN IF r.ok THEN Goto(r.w, c, "reload") ELSE Return(w, c, "Internal")
    [] c.pc = "reload" ->
         IF getRoomByCode(w, c.code) = Null THEN Return(w, c, "NotFound")
         ELSE Return(w, c, "ok")

joinRoomStep(w, c) ==
  CASE c.pc = "load" ->
         LET room == getRoomByCode(w, c.code)
         IN IF room = Null THEN Return(w, c, "NotFound")
            ELSE IF room.room.status # "waiting" THEN Return(w, c, "RoomNotJoinable")
            ELSE IF IsMember(room, c.user) THEN Return(w, c, "ok")
            ELSE IF RoomIsFull(room) THEN Return(w, c, "RoomFull")
            ELSE [w |-> w, c |-> [c EXCEPT !.pc = "addMember", !.snap = room]]
    [] c.pc = "addMember" ->
         LET r == addMember(w, c.snap.room.id, c.user)
         IN IF r.ok THEN Goto(r.w, c, "reload") ELSE Return(w, c, "Internal")
    [] c.pc = "reload" -> ReloadStep(w, c, "member-joined")

\* closeAndDeleteRoom without its pusherService.roomClosed call
CloseWithoutEvent(w, c, room) ==
  [w |-> w, c |-> [c EXCEPT !.pc = "deleteMembers", !.snap = room]]

\* closeAndDeleteRoom(room): pusherService.roomClosed is called first, in the turn
\* that loaded the room; then the two deletes
closeAndDeleteRoomBegin(w, c, room) ==
  AfterTrigger(w, c, [w |-> Publish(w, c, room.room.roomCode, "room-closed", Null),
                      c |-> [c EXCEPT !.pc = "deleteMembers", !.snap = room]])

closeAndDeleteRoomStep(w, c) ==
  CASE c.pc = "deleteMembers" ->
         Goto(DeleteMembers(w, LAMBDA m : m.roomId = c.snap.room.id), c, "deleteRoom")
    [] c.pc = "deleteRoom" ->
         Return(DeleteRoom(w, c.snap.room.id), c, "ok")

ClosePcs == {"deleteMembers", "deleteRoom"}

\* leaveRoom whose delete removes no row
leaveRoomKeepsRow(w, c) ==
  CASE c.pc = "load" ->
         LET room == getRoomByCode(w, c.code)
         IN IF room = Null THEN Return(w, c, "NotFound")
            ELSE IF room.room.ownerId = c.user
            THEN closeAndDeleteRoomBegin(w, c, room)
            ELSE [w |-> w, c |-> [c EXCEPT !.pc = "delete", !.snap = room]]
    [] c.pc \in ClosePcs -> closeAndDeleteRoomStep(w, c)
    [] c.pc = "delete" -> Goto(w, c, "reload")
    [] c.pc = "reload" -> ReloadStep(w, c, "member-left")

leaveRoomStep(w, c) ==
  CASE c.pc = "load" ->
         LET room == getRoomByCode(w, c.code)
         IN IF room = Null THEN Return(w, c, "NotFound")
            ELSE IF room.room.ownerId = c.user
            THEN closeAndDeleteRoomBegin(w, c, room)
            ELSE [w |-> w, c |-> [c EXCEPT !.pc = "delete", !.snap = room]]
    [] c.pc \in ClosePcs -> closeAndDeleteRoomStep(w, c)
    [] c.pc = "delete" ->
         Goto(DeleteMembers(w, LAMBDA m : m.roomId = c.snap.room.id /\ m.userId = c.user),
              c, "reload")
    [] c.pc = "reload" -> ReloadStep(w, c, "member-left")

\* c.arg is memberId (a user id)
removeMemberStep(w, c) ==
  CASE c.pc = "load" ->
         LET room == getRoomByCode(w, c.code)
         IN IF room = Null THEN Return(w, c, "NotFound")
            ELSE IF room.room.ownerId # c.user THEN Return(w, c, "NotOwner")
            ELSE IF c.arg = c.user THEN Return(w, c, "CannotRemoveOwner")
            ELSE IF ~IsMember(room, c.arg) THEN Return(w, c, "MemberNotFound")
            ELSE [w |-> w, c |-> [c EXCEPT !.pc = "delete", !.snap = room]]
    [] c.pc = "delete" ->
         Goto(DeleteMembers(w, LAMBDA m : m.roomId = c.snap.room.id /\ m.userId = c.arg),
              c, "reload")
    [] c.pc = "reload" -> ReloadStep(w, c, "member-left")

\* closeRoom without its owner check
closeRoomByAnyone(w, c) ==
  CASE c.pc = "load" ->
         LET room == getRoomByCode(w, c.code)
         IN IF room = Null THEN Return(w, c, "NotFound")
            ELSE closeAndDeleteRoomBegin(w, c, room)
    [] c.pc \in ClosePcs -> closeAndDeleteRoomStep(w, c)

closeRoomStep(w, c) ==
  CASE c.pc = "load" ->
         LET room == getRoomByCode(w, c.code)
         IN IF room = Null THEN Return(w, c, "NotFound")
            ELSE IF room.room.ownerId # c.user THEN Return(w, c, "NotOwner")
            ELSE closeAndDeleteRoomBegin(w, c, room)
    [] c.pc \in ClosePcs -> closeAndDeleteRoomStep(w, c)

\* the DivisionResult projection of a team
Projection(team) ==
  [k \in 1..Len(team) |->
     [id |-> team[k].userId, nickname |-> team[k].nick, labels |-> team[k].labels]]

\* the awaited memberRepository.update(member.id, {team}) calls, team A first
TeamUpdates(teamA, teamB) ==
  [k \in 1..Len(teamA) |-> [id |-> teamA[k].id, team |-> "team_a"]]
    \o [k \in 1..Len(teamB) |-> [id |-> teamB[k].id, team |-> "team_b"]]

\* room.status = DIVIDED; room.divisionResult = result (on the loaded object)
DividedRow(room, result) ==
  [room EXCEPT !.status = "divided", !.divisionResult = result]

\* the division is computed: the member updates to run and the room row to save
DividePlan(w, c, room, d) ==
  [w |-> w,
   c |-> [c EXCEPT !.pc = IF TeamUpdates(d.teamA, d.teamB) = <<>> THEN "saveRoom"
                         ELSE "updateTeam",
                   !.todo = TeamUpdates(d.teamA, d.teamB),
                   !.snap = [room |-> DividedRow(room.room,
                                                 [teamA |-> Projection(d.teamA),
                                                  teamB |-> Projection(d.teamB)]),
                             members |-> room.members]]]

\* divideTeams without its status check
DivideLoadedAnyStatus(w, c, room, rnd) ==
  IF room = Null THEN Return(w, c, "NotFound")
  ELSE IF room.room.ownerId # c.user THEN Return(w, c, "NotOwner")
  ELSE IF Len(room.members) < 2 THEN Return(w, c, "TooFewMembers")
  ELSE DividePlan(w, c, room, divideWithRules(room.members, room.room.labelRules, rnd))

\* the checks of divideTeams on the loaded room, then the solver
DivideLoaded(w, c, room, rnd) ==
  IF room = Null THEN Return(w, c, "NotFound")
  ELSE IF room.room.ownerId # c.user THEN Return(w, c, "NotOwner")
  ELSE IF room.room.status # "waiting" THEN Return(w, c, "WrongStatus")
  ELSE IF Len(room.members) < 2 THEN Return(w, c, "TooFewMembers")
  ELSE DividePlan(w, c, room, divideWithRules(room.members, room.room.labelRules, rnd))

\* divideTeams; rnd are the random draws of divideWithRules
divideTeamsStep(w, c, rnd) ==
  CASE c.pc = "load" -> DivideLoaded(w, c, getRoomByCode(w, c.code), rnd)
    [] c.pc = "updateTeam" ->
         LET u == Head(c.todo)
         IN [w |-> UpdateMembers(w, LAMBDA m : m.id = u.id, "team", u.team),
             c |-> [c EXCEPT !.todo = Tail(@),
                             !.pc = IF Tail(c.todo) = <<>> THEN "saveRoom" ELSE "updateTeam"]]
    [] c.pc = "saveRoom" ->
         LET r == SaveRoom(w, c.snap.room)
         IN IF r.ok THEN Goto(r.w, c, "reload") ELSE Return(w, c, "Internal")
    [] c.pc = "reload" ->
         LET updatedRoom == getRoomByCode(w, c.code)
         IN IF updatedRoom = Null THEN Return(w, c, "NotFound")
            ELSE AfterTrigger(w, c, Return(Publish(w, c, c.code, "teams-divided",
                                                   [room |-> formatRoomData(updatedRoom),
                                                    result |-> c.snap.room.divisionResult]),
                                           c, "ok"))

\* redivideTeams: reset the teams, save status WAITING, then divideTeams
redivideTeamsStep(w, c, rnd) ==
  CASE c.pc = "loadRedivide" ->
         LET room == getRoomByCode(w, c.code)
         IN IF room = Null THEN Return(w, c, "NotFound")
            ELSE IF room.room.ownerId # c.user THEN Return(w, c, "NotOwner")
            ELSE [w |-> w, c |-> [c EXCEPT !.pc = "resetTeams", !.snap = room]]
    [] c.pc = "resetTeams" ->
         Goto(UpdateMembers(w, LAMBDA m : m.roomId = c.snap.room.id, "team", "none"),
              c, "saveWaiting")
    [] c.pc = "saveWaiting" ->
         LET r == SaveRoom(w, [c.snap.room EXCEPT !.status = "waiting"])
         IN IF r.ok THEN Goto(r.w, c, "load") ELSE Return(w, c, "Internal")
    [] OTHER -> divideTeamsStep(w, c, rnd)

\* the mutual-exclusion check that never fires
NeverConflicting(labelRules) == FALSE

\* the mutual-exclusion check with > 2 for > 1
ConflictingBeyondTwo(labelRules) ==
  Len(SelectSeq(labelRules, LAMBDA e : e[2] = "same_team")) > 2

\* at most one label may be same_team
ConflictingRules(labelRules) ==
  Len(SelectSeq(labelRules, LAMBDA e : e[2] = "same_team")) > 1

\* c.arg is [memberId, labels]
setMemberLabelsStep(w, c) ==
  CASE c.pc = "load" ->
         LET room == getRoomByCode(w, c.code)
         IN IF room = Null THEN Return(w, c, "NotFound")
            ELSE IF room.room.ownerId # c.user THEN Return(w, c, "NotOwner")
            ELSE IF \E l \in Range(c.arg.labels) : l \notin MemberLabel
            THEN Return(w, c, "InvalidLabel")
            ELSE IF ~IsMember(room, c.arg.memberId) THEN Return(w, c, "MemberNotFound")
            ELSE LET k == FindIndex(room.members, LAMBDA m : m.userId = c.arg.memberId)
                 IN [w |-> w, c |-> [c EXCEPT !.pc = "update", !.snap = room,
                                              !.todo = <<[id |-> room.members[k].id]>>]]
    [] c.pc = "update" ->
         Goto(UpdateMembers(w, LAMBDA m : m.id = c.todo[1].id, "labels", c.arg.labels),
              c, "reload")
    [] c.pc = "reload" -> ReloadStep(w, c, "member-joined")

\* c.arg is the labelRules of the request (its entries)
setLabelRulesStep(w, c) ==
  CASE c.pc = "load" ->
         LET room == getRoomByCode(w, c.code)
         IN IF room = Null THEN Return(w, c, "NotFound")
            ELSE IF room.room.ownerId # c.user THEN Return(w, c, "NotOwner")
            ELSE IF \E e \in Range(c.arg) : e[2] # "" /\ e[2] \notin LabelRule
            THEN Return(w, c, "InvalidRule")
            ELSE IF ConflictingRules(c.arg) THEN Return(w, c, "ConflictingRules")
            ELSE [w |-> w, c |-> [c EXCEPT !.pc = "saveRoom",
                                           !.snap = [room |-> [room.room EXCEPT !.labelRules = c.arg],
                                                     members |-> room.members]]]
    [] c.pc = "saveRoom" ->
         LET r == SaveRoom(w, c.snap.room)
         IN IF r.ok THEN Goto(r.w, c, "reload") ELSE Return(w, c, "Internal")
    [] c.pc = "reload" -> ReloadStep(w, c, "member-joined")

(***************************************************************************)
(* Requests: the inputs the model draws                                    *)
(***************************************************************************)
MaxCalls == 3
AllSlots == 1..5
Slots == {1, 2}

\* dto.maxMembers (0: absent)
MaxMembersInputs == {0, 2}
LabelInputs == {<<"boss">>, <<"queen">>}
RuleInputs == {<< <<"god", "even">> >>,
               << <<"boss", "same_team">> >>,
               << <<"god", "same_team">>, <<"boss", "same_team">> >>,
               << <<"god", "always">> >>}
Rnd == [pair : BOOLEAN, pairA : BOOLEAN, targetA : BOOLEAN]

\* a request about to run its first step
Request(op, user, code, arg) ==
  [NewCall(op, user, code, arg) EXCEPT
     !.pc = IF op = "redivideTeams" THEN "loadRedivide" ELSE "load"]

Requests(op) ==
  CASE op = "createRoom" ->
         {Request(op, u, "", mm) : u \in Users, mm \in MaxMembersInputs}
    [] op = "removeMember" ->
         {Request(op, u, code, t) : u \in Users, code \in Codes, t \in Users}
    [] op = "setMemberLabels" ->
         {Request(op, u, code, [memberId |-> t, labels |-> ls]) :
            u \in Users, code \in Codes, t \in Users, ls \in LabelInputs}
    [] op = "setLabelRules" ->
         {Request(op, u, code, rs) : u \in Users, code \in Codes, rs \in RuleInputs}
    [] OTHER -> {Request(op, u, code, Null) : u \in Users, code \in Codes}

(***************************************************************************)
(* Actions.  A request arrives (its slot is idle) and runs up to its first *)
(* await, or an in-flight request runs its next step.  The step that       *)
(* returns or throws frees the slot and sends the response.                *)
(***************************************************************************)
FirstIdle(p) == calls[p] = Idle /\ \A q \in DOMAIN calls : q < p => calls[q] # Idle

\* the requests slot p may step as op: a new one, or the one in flight.  A new
\* request for a code no room has only throws NotFound and is left out.
Current(p, op) ==
  IF p \notin DOMAIN calls THEN {}
  ELSE IF FirstIdle(p)
  THEN IF ncalls < MaxCalls
       THEN {[c EXCEPT !.id = ncalls + 1] :
               c \in {x \in Requests(op) : op = "createRoom" \/ rooms[x.code] # NoRoom}}
       ELSE {}
  ELSE IF calls[p].op = op THEN {calls[p]}
  ELSE {}

\* the random draws a step consumes: only the step that runs the solver draws
Draws(c) == IF c.pc = "load" THEN Rnd
            ELSE {[pair |-> FALSE, pairA |-> FALSE, targetA |-> FALSE]}

Response(c) ==
  [id |-> c.id, op |-> c.op, user |-> c.user, code |-> c.code, arg |-> c.arg, res |-> c.res]

\* a request that arrives counts once it is past its first load, or at once
\* when responses are recorded; one that is not counted and changes nothing is
\* left out
Counted(p, r) == calls[p] = Idle /\ (r.c.pc # "done" \/ trace # "off")

Apply(p, r) ==
  /\ Counted(p, r) => ncalls < MaxCalls
  /\ calls[p] = Idle /\ ~Counted(p, r) => r.w # World
  /\ ncalls' = IF Counted(p, r) THEN ncalls + 1 ELSE ncalls
  /\ rooms' = r.w.rooms
  /\ members' = r.w.members
  /\ nextId' = r.w.nextId
  /\ events' = r.w.events
  /\ calls' = [calls EXCEPT ![p] = IF r.c.pc = "done" THEN Idle ELSE r.c]
  /\ resp' = IF r.c.pc # "done" \/ trace = "off" THEN resp
             ELSE IF trace = "all" THEN Append(resp, Response(r.c))
             ELSE <<Response(r.c)>>
  /\ UNCHANGED <<trace, solver, pusher, client, page, polling>>

CreateRoom ==
  \E p \in AllSlots : \E c \in Current(p, "createRoom") : \E sample \in Codes :
    Apply(p, createRoomStep(World, c, sample))

JoinRoom ==
  \E p \in AllSlots : \E c \in Current(p, "joinRoom") : Apply(p, joinRoomStep(World, c))

LeaveRoom ==
  \E p \in AllSlots : \E c \in Current(p, "leaveRoom") : Apply(p, leaveRoomStep(World, c))

RemoveMember ==
  \E p \in AllSlots : \E c \in Current(p, "removeMember") :
    Apply(p, removeMemberStep(World, c))

CloseRoom ==
  \E p \in AllSlots : \E c \in Current(p, "closeRoom") : Apply(p, closeRoomStep(World, c))

DivideTeams ==
  \E p \in AllSlots : \E c \in Current(p, "divideTeams") : \E rnd \in Draws(c) :
    Apply(p, divideTeamsStep(World, c, rnd))

RedivideTeams ==
  \E p \in AllSlots : \E c \in Current(p, "redivideTeams") : \E rnd \in Draws(c) :
    Apply(p, redivideTeamsStep(World, c, rnd))

SetMemberLabels ==
  \E p \in AllSlots : \E c \in Current(p, "setMemberLabels") :
    Apply(p, setMemberLabelsStep(World, c))

SetLabelRules ==
  \E p \in AllSlots : \E c \in Current(p, "setLabelRules") :
    Apply(p, setLabelRulesStep(World, c))

Init ==
  /\ rooms = [code \in Codes |-> NoRoom]
  /\ members = <<>>
  /\ nextId = 1
  /\ events = <<>>
  /\ calls = [p \in Slots |-> Idle]
  /\ ncalls = 0
  /\ trace = "off"
  /\ resp = <<>>
  /\ solver = Null
  /\ pusher = TRUE
  /\ client = Null
  /\ page = Null
  /\ polling = Null

Next ==
  \/ CreateRoom
  \/ JoinRoom
  \/ LeaveRoom
  \/ RemoveMember
  \/ CloseRoom
  \/ DivideTeams
  \/ RedivideTeams
  \/ SetMemberLabels
  \/ SetLabelRules

Spec == Init /\ [][Next]_vars

(***************************************************************************)
(* Calls run one at a time, and the specifications that start from a room  *)
(* built that way with requests already in flight.                         *)
(***************************************************************************)
Step(w, c, sample, rnd) ==
  CASE c.op = "createRoom" -> createRoomStep(w, c, sample)
    [] c.op = "joinRoom" -> joinRoomStep(w, c)
    [] c.op = "leaveRoom" -> leaveRoomStep(w, c)
    [] c.op = "removeMember" -> removeMemberStep(w, c)
    [] c.op = "closeRoom" -> closeRoomStep(w, c)
    [] c.op = "divideTeams" -> divideTeamsStep(w, c, rnd)
    [] c.op = "redivideTeams" -> redivideTeamsStep(w, c, rnd)
    [] c.op = "setMemberLabels" -> setMemberLabelsStep(w, c)
    [] c.op = "setLabelRules" -> setLabelRulesStep(w, c)

\* one call run alone, from where it stands to its response
RECURSIVE RunCall(_, _, _, _)
RECURSIVE RunNext(_, _, _)
RunCall(w, c, sample, rnd) ==
  IF c.pc = "done" THEN [w |-> w, c |-> c] ELSE RunNext(Step(w, c, sample, rnd), sample, rnd)

RunNext(r, sample, rnd) == RunCall(r.w, r.c, sample, rnd)

NoDraws == [pair |-> FALSE, pairA |-> FALSE, targetA |-> FALSE]

EmptyWorld ==
  [rooms |-> [code \in Codes |-> NoRoom], members |-> <<>>, nextId |-> 1, events |-> <<>>,
   pusher |-> TRUE]

\* u1 has created room c1 for SeedMaxMembers members and u2 has joined it
SeedMaxMembers == 3

SeedCreated == RunCall(EmptyWorld, Request("createRoom", "u1", "", SeedMaxMembers), "c1", NoDraws).w

SeedWorld == RunCall(SeedCreated, Request("joinRoom", "u2", "c1", Null), "c1", NoDraws).w

\* the requests raced on room c1, two at a time
RaceMenu ==
  <<Request("joinRoom", "u3", "c1", Null),
    Request("joinRoom", "u4", "c1", Null),
    Request("leaveRoom", "u2", "c1", Null),
    Request("leaveRoom", "u1", "c1", Null),
    Request("removeMember", "u1", "c1", "u2"),
    Request("closeRoom", "u1", "c1", Null),
    Request("closeRoom", "u2", "c1", Null),
    Request("divideTeams", "u1", "c1", Null),
    Request("redivideTeams", "u1", "c1", Null),
    Request("setMemberLabels", "u1", "c1", [memberId |-> "u2", labels |-> <<"boss">>]),
    Request("setLabelRules", "u1", "c1", << <<"boss", "even">> >>),
    Request("setLabelRules", "u1", "c1", << <<"boss", "same_team">> >>),
    Request("setLabelRules", "u1", "c1", << <<"god", "same_team">>, <<"boss", "same_team">> >>),
    Request("joinRoom", "u2", "c1", Null),
    Request("removeMember", "u2", "c1", "u1"),
    Request("divideTeams", "u2", "c1", Null),
    Request("redivideTeams", "u2", "c1", Null),
    Request("setMemberLabels", "u2", "c1", [memberId |-> "u1", labels |-> <<"boss">>]),
    Request("setLabelRules", "u2", "c1", << <<"boss", "even">> >>)>>

\* the database is w
Database(w) ==
  /\ rooms = w.rooms
  /\ members = w.members
  /\ nextId = w.nextId
  /\ events = w.events
  /\ pusher = w.pusher

\* the database is the one the two seeding calls leave behind
Seeded ==
  \E created \in {SeedCreated} :
    \E joined \in {RunCall(created, Request("joinRoom", "u2", "c1", Null), "c1", NoDraws).w} :
      Database(joined)

RaceInit ==
  /\ Seeded
  /\ \E i \in 1..Len(RaceMenu) : \E j \in i..Len(RaceMenu) :
       calls = [p \in Slots |-> [(IF p = 1 THEN RaceMenu[i] ELSE RaceMenu[j]) EXCEPT !.id = p]]
  /\ ncalls = MaxCalls
  /\ trace = "all"
  /\ resp = <<>>
  /\ solver = Null
  /\ client = Null
  /\ page = Null
  /\ polling = Null

RaceNext ==
  \/ JoinRoom
  \/ LeaveRoom
  \/ RemoveMember
  \/ CloseRoom
  \/ DivideTeams
  \/ RedivideTeams
  \/ SetMemberLabels
  \/ SetLabelRules

RaceSpec == RaceInit /\ [][RaceNext]_vars

\* five users join room c1 at once
Joiners == <<"u3", "u4", "u5", "u6", "u7">>

JoinRaceInit ==
  /\ Seeded
  /\ calls = [p \in AllSlots |-> [Request("joinRoom", Joiners[p], "c1", Null) EXCEPT !.id = p]]
  /\ ncalls = MaxCalls
  /\ trace = "all"
  /\ resp = <<>>
  /\ solver = Null
  /\ client = Null
  /\ page = Null
  /\ polling = Null

JoinRaceNext == JoinRoom

JoinRaceSpec == JoinRaceInit /\ [][JoinRaceNext]_vars

\* requests arrive at the seeded room one at a time: the next one is taken up
\* when the one before it has been answered, and the last answer is kept
SerialInit ==
  /\ Seeded
  /\ calls = [p \in {1} |-> Idle]
  /\ ncalls = 0
  /\ trace = "last"
  /\ resp = <<>>
  /\ solver = Null
  /\ client = Null
  /\ page = Null
  /\ polling = Null

SerialSpec == SerialInit /\ [][Next]_vars

\* the program points whose next step is a repository write (save, update,
\* delete)
WritePcs == {"saveRoom", "addOwner", "addMember", "deleteMembers", "deleteRoom", "delete",
             "updateTeam", "resetTeams", "saveWaiting", "update"}

\* the awaited repository write rejects (connection lost, statement timeout,
\* deadlock victim): no handler catches it, the request ends with the error
\* and whatever it had written or published stays
Fault ==
  \E p \in DOMAIN calls :
    /\ calls[p] # Idle
    /\ calls[p].pc \in WritePcs
    /\ Apply(p, Return(World, calls[p], "WriteFailed"))

FaultNext == Next \/ Fault

FaultSpec == SerialInit /\ [][FaultNext]_vars

\* pusher.trigger starts to reject (Pusher unreachable, credentials revoked,
\* quota exceeded) or to resolve again, at any moment of a request
Outage ==
  /\ pusher' = ~pusher
  /\ UNCHANGED <<rooms, members, nextId, events, calls, ncalls, trace, resp, solver, client, page, polling>>

OutageNext == Next \/ Outage

\* the seeded room, one request at a time, with room for MaxCalls - 1 requests
OutageInit ==
  /\ Seeded
  /\ calls = [p \in {1} |-> Idle]
  /\ ncalls = 1
  /\ trace = "last"
  /\ resp = <<>>
  /\ solver = Null
  /\ client = Null
  /\ page = Null
  /\ polling = Null

OutageSpec == OutageInit /\ [][OutageNext]_vars

(***************************************************************************)
(* Properties of the room service                                          *)
(***************************************************************************)
\* the membership rows of the room stored under code
RowsOf(code) == SelectSeq(members, LAMBDA m : m.roomId = rooms[code].id)

Existing == {code \in Codes : rooms[code] # NoRoom}

\* every request of a race has been answered
AllAnswered == trace = "all" /\ \A p \in DOMAIN calls : calls[p] = Idle

\* what a client can tell of a room of database w: the row without its keys, the
\* memberships as a set, the teams of the division as sets
TeamView(team) == {[id |-> team[k].id, labels |-> team[k].labels] : k \in 1..Len(team)}

ResultView(result) ==
  IF result = Null THEN Null
  ELSE [teamA |-> TeamView(result.teamA), teamB |-> TeamView(result.teamB)]

RoomView(w, code) ==
  IF w.rooms[code] = NoRoom THEN Null
  ELSE [status |-> w.rooms[code].status,
        ownerId |-> w.rooms[code].ownerId,
        maxMembers |-> w.rooms[code].maxMembers,
        labelRules |-> w.rooms[code].labelRules,
        divisionResult |-> ResultView(w.rooms[code].divisionResult),
        members |-> {[userId |-> m.userId, team |-> m.team, labels |-> m.labels] :
                       m \in {x \in Range(w.members) : x.roomId = w.rooms[code].id}}]

\* the request a recorded response answers
Asked(r) == Request(r.op, r.user, r.code, r.arg)

\* the database after the two answered requests have run alone, first then second
SerialRun(first, second, rnd1, rnd2) ==
  RunCall(RunCall(SeedWorld, Asked(first), "c1", rnd1).w, Asked(second), "c1", rnd2).w

\* C1: concurrent mutations of one room serialize: the room two concurrent
\* calls leave behind is a room the same two calls leave behind when they run
\* one at a time in some order.
C1_Serializable ==
  AllAnswered /\ Len(resp) = 2
    => \E k \in 1..2 : \E rnd1 \in Rnd : \E rnd2 \in Rnd :
         RoomView(SerialRun(resp[k], resp[3 - k], rnd1, rnd2), "c1") = RoomView(World, "c1")

\* C2: in every reachable state the number of memberships of a room is at
\* most the room's maxMembers.
C2_MemberCountWithinMax ==
  \A code \in Existing : Len(RowsOf(code)) <= rooms[code].maxMembers

\* the responses with outcome res
Answers(res) == {k \in 1..Len(resp) : resp[k].res = res}

\* the events named event published since the race began
PublishedSince(event) ==
  {k \in (Len(SeedWorld.events) + 1)..Len(events) : events[k].event = event}

\* C3: with maxMembers 3 and 2 members, of 5 concurrent joinRoom calls of 5
\* distinct non-members exactly one succeeds, four fail with RoomFull and
\* exactly one member-joined event is published.
C3_OneJoinWins ==
  AllAnswered /\ Len(resp) = Len(Joiners)
    => /\ Cardinality(Answers("ok")) = 1
       /\ Cardinality(Answers("RoomFull")) = Len(Joiners) - 1
       /\ Cardinality(PublishedSince("member-joined")) = 1

\* C4: in every reachable state every membership of a divided room has team
\* team_a or team_b.
C4_DividedAllAssigned ==
  \A code \in Existing :
    rooms[code].status = "divided"
      => \A m \in Range(RowsOf(code)) : m.team \in {"team_a", "team_b"}

\* the user ids of a team of a division result
TeamIds(team) == [k \in 1..Len(team) |-> team[k].id]

\* C5: in every reachable state a divided room has a division result whose
\* two teams together hold exactly the room's current members, each once.
C5_ResultMatchesMembers ==
  \A code \in Existing :
    rooms[code].status = "divided"
      => /\ rooms[code].divisionResult # Null
         /\ LET ids == TeamIds(rooms[code].divisionResult.teamA)
                         \o TeamIds(rooms[code].divisionResult.teamB)
            IN /\ Len(ids) = Len(RowsOf(code))
               /\ Cardinality(Range(ids)) = Len(ids)
               /\ Range(ids) = {m.userId : m \in Range(RowsOf(code))}

\* C6: in every reachable state every membership of a waiting room has team
\* none.
C6_WaitingAllUnassigned ==
  \A code \in Existing :
    rooms[code].status = "waiting" => \A m \in Range(RowsOf(code)) : m.team = "none"

\* C7: in every reachable state each user owns at most one waiting room.
C7_OneWaitingRoomPerOwner ==
  \A code1 \in Existing : \A code2 \in Existing :
    /\ rooms[code1].status = "waiting"
    /\ rooms[code2].status = "waiting"
    /\ rooms[code1].ownerId = rooms[code2].ownerId
    => code1 = code2

\* C8: in every reachable state every existing room has a membership and its
\* owner is one of its members.
C8_OwnerIsMember ==
  \A code \in Existing : \E m \in Range(RowsOf(code)) : m.userId = rooms[code].ownerId

\* the requests that take the step from the current state to the next
Stepping ==
  {IF calls[p] = Idle THEN calls'[p] ELSE calls[p] :
     p \in {q \in DOMAIN calls : calls'[q] # calls[q]}}

\* the change of the room stored under code in one step follows the lifecycle
LifecycleEdge(code) ==
  CASE rooms[code] = NoRoom /\ rooms'[code] # NoRoom ->
         /\ rooms'[code].status = "waiting"
         /\ rooms'[code].id = nextId
         /\ \A c \in Stepping : c.op = "createRoom"
    [] rooms[code] # NoRoom /\ rooms'[code] = NoRoom ->
         \A c \in Stepping :
           \/ c.op = "closeRoom"
           \/ c.op = "leaveRoom" /\ c.user = rooms[code].ownerId
    [] rooms[code] # NoRoom /\ rooms'[code] # NoRoom ->
         /\ rooms'[code].id = rooms[code].id
         /\ rooms[code].status = "waiting" /\ rooms'[code].status = "divided"
              => \A c \in Stepping : c.op \in {"divideTeams", "redivideTeams"}
         /\ rooms[code].status = "divided" /\ rooms'[code].status = "waiting"
              => \A c \in Stepping : c.op = "redivideTeams"
    [] OTHER -> TRUE

\* C9: a room's status changes only along the lifecycle edges: created in
\* waiting, waiting to divided only by divideTeams, divided to waiting only by
\* redivideTeams, deleted only by closeRoom or the owner's leaveRoom, and a
\* deleted room is not changed or brought back by a later operation.
C9_LifecycleOnly == [][\A code \in Codes : LifecycleEdge(code)]_vars

(***************************************************************************)
(* The solver on its own: divideWithRules applied to a drawn member list,  *)
(* rules map and random outcomes (the standalone solver test calls it the  *)
(* same way).                                                              *)
(***************************************************************************)
MaxExact == 3
GreedyVar == 2

LabelKinds == {<<>>, <<"god">>, <<"boss">>, <<"god", "boss">>}

\* the fixed tail of the long lists: cspLimit + 1 members over all label kinds
Filler(i) == CASE i % 4 = 0 -> <<"god">>
               [] i % 4 = 1 -> <<>>
               [] i % 4 = 2 -> <<"boss">>
               [] OTHER -> <<"god", "boss">>

LabelLists ==
  UNION {[1..n -> LabelKinds] : n \in 0..MaxExact}
    \cup {head \o [i \in 1..(cspLimit + 1) |-> Filler(i)] : head \in [1..GreedyVar -> LabelKinds]}

\* the members of a list of label sets; withPair names the first WeiRui and
\* the last TuZi
MembersOf(ls, withPair) ==
  [i \in 1..Len(ls) |->
     [id |-> i, labels |-> ls[i],
      nick |-> IF withPair /\ i = 1 THEN WeiRui
               ELSE IF withPair /\ i = Len(ls) THEN TuZi ELSE "plain"]]

SolverRules == {<<>>,
                << <<"god", "none">> >>,
                << <<"god", "even">> >>,
                << <<"boss", "same_team">> >>,
                << <<"god", "even">>, <<"boss", "same_team">> >>,
                << <<"god", "same_team">>, <<"boss", "even">> >>}

\* Scenario 3 of the solver test (multiLabel): ten members, two even labels
members3 ==
  << <<"god", "pro">>, <<"god">>, <<"pro">>, <<"god">>, <<"pro">>,
     <<>>, <<>>, <<>>, <<>>, <<>> >>

rules3 == << <<"god", "even">>, <<"pro", "even">> >>

\* the same scenario with two members of each labelled kind and four without
\* labels, in three orders, and the labels god and male
MultiLabelLists ==
  {<< <<"god", "male">>, <<"god", "male">>, <<"god">>, <<"god">>, <<"male">>, <<"male">>,
      <<>>, <<>>, <<>>, <<>> >>,
   << <<>>, <<>>, <<"male">>, <<>>, <<"god">>, <<"male">>, <<"god", "male">>, <<>>,
      <<"god">>, <<"god", "male">> >>,
   << <<"god">>, <<>>, <<"male">>, <<"god", "male">>, <<>>, <<"god">>, <<>>,
      <<"god", "male">>, <<>>, <<"male">> >>}

MultiLabelRules == << <<"god", "even">>, <<"male", "even">> >>

\* long lists on which the greedy placement leaves 2-opt something to swap:
\* the pre-assigned pair carries labels the other side cannot make up for
TwoOptLists ==
  {[ls |-> << <<"god">>, <<"god">>, <<>>, <<"god", "boss">>, <<>>, <<"god">>, <<"god">>, <<>>,
              <<"god", "boss">>, <<"god">>, <<>>, <<"god", "boss">>, <<"god", "boss">>, <<>>,
              <<"god">> >>,
    rules |-> << <<"god", "even">>, <<"boss", "even">> >>],
   [ls |-> << <<"boss">>, <<>>, <<"god", "boss", "pro">>, <<>>, <<"god", "pro">>, <<>>,
              <<"boss", "pro">>, <<"boss">>, <<"god", "boss", "pro">>, <<"boss", "pro">>,
              <<"boss">>, <<"boss", "pro">>, <<"god", "boss">>, <<"boss">>, <<"boss">> >>,
    rules |-> << <<"boss", "even">>, <<"god", "even">>, <<"pro", "even">> >>]}

ScenarioInputs ==
  {[members |-> MembersOf(members3, FALSE), labelRules |-> rules3, rnd |-> Null, result |-> Null]}
    \cup {[members |-> MembersOf(x.ls, TRUE), labelRules |-> x.rules, rnd |-> Null,
           result |-> Null] : x \in TwoOptLists}
    \cup {[members |-> MembersOf(ls, withPair), labelRules |-> MultiLabelRules,
           rnd |-> Null, result |-> Null] : ls \in MultiLabelLists, withPair \in BOOLEAN}

SolverInputs ==
  {[members |-> MembersOf(lw[1], lw[2]), labelRules |-> rs, rnd |-> Null, result |-> Null] :
     lw \in {x \in LabelLists \X BOOLEAN : x[2] => Len(x[1]) >= 2}, rs \in SolverRules}
    \cup ScenarioInputs

SolverInit ==
  /\ rooms = [code \in Codes |-> NoRoom]
  /\ members = <<>>
  /\ nextId = 1
  /\ events = <<>>
  /\ calls = [p \in Slots |-> Idle]
  /\ ncalls = 0
  /\ trace = "off"
  /\ resp = <<>>
  /\ solver \in SolverInputs
  /\ pusher = TRUE
  /\ client = Null
  /\ page = Null
  /\ polling = Null

Solve ==
  /\ solver # Null
  /\ solver.result = Null
  /\ \E rnd \in Rnd :
       solver' = [solver EXCEPT !.rnd = rnd,
                                !.result = divideWithRules(solver.members, solver.labelRules, rnd)]
  /\ UNCHANGED <<rooms, members, nextId, events, calls, ncalls, trace, resp, pusher, client, page, polling>>

SolverNext == Solve

SolverSpec == SolverInit /\ [][SolverNext]_vars

\* the labels a rules map gives the rule same_team
SameTeamLabels(labelRules) == {e[1] : e \in {x \in Range(labelRules) : x[2] = "same_team"}}

\* whether both teams of a result hold a member carrying label
HeldOnBothSides(result, label) ==
  /\ \E m \in Range(result.teamA) : label \in Range(m.labels)
  /\ \E m \in Range(result.teamB) : label \in Range(m.labels)

Solved == solver # Null /\ solver.result # Null

\* C10: for every member list, every rules map with one same_team label and
\* every random outcome, divideWithRules returns no teams that both hold a
\* member carrying that label, on the exact and on the greedy + 2-opt path.
C10_SameTeamNeverSplit ==
  Solved /\ Cardinality(SameTeamLabels(solver.labelRules)) = 1
    => \A label \in SameTeamLabels(solver.labelRules) :
         ~HeldOnBothSides(solver.result, label)

\* a solved long list (greedy + 2-opt path) with two holders of the same_team
\* label, a member without it, and the hidden pair pre-assigned
C10_Witness ==
  /\ Solved
  /\ SameTeamLabels(solver.labelRules) = {"boss"}
  /\ Len(solver.members) > cspLimit + 2
  /\ solver.members[1].nick = WeiRui /\ solver.rnd.pair
  /\ Cardinality({i \in 1..Len(solver.members) : "boss" \in Range(solver.members[i].labels)}) >= 2
  /\ \E m \in Range(solver.members) : "boss" \notin Range(m.labels)
  /\ solver.result.teamA # <<>> /\ solver.result.teamB # <<>>

\* the labels a rules map gives the rule even
EvenRuleLabels(labelRules) == {e[1] : e \in {x \in Range(labelRules) : x[2] = "even"}}

\* how many members of a team carry label
Holding(team, label) == Cardinality({k \in 1..Len(team) : label \in Range(team[k].labels)})

RECURSIVE SumImbalance(_, _, _)
SumImbalance(teamA, teamB, labels) ==
  IF labels = {} THEN 0
  ELSE LET l == CHOOSE x \in labels : TRUE
       IN (IF Holding(teamA, l) >= Holding(teamB, l)
           THEN Holding(teamA, l) - Holding(teamB, l)
           ELSE Holding(teamB, l) - Holding(teamA, l))
            + SumImbalance(teamA, teamB, labels \ {l})

\* the imbalance score of a split, written from its formula: 5 for every unit
\* of difference in an even label, 3 for every unit of difference in size
Imbalance(split, labelRules) ==
  5 * SumImbalance(split.teamA, split.teamB, EvenRuleLabels(labelRules))
    + 3 * (IF Len(split.teamA) >= Len(split.teamB)
           THEN Len(split.teamA) - Len(split.teamB)
           ELSE Len(split.teamB) - Len(split.teamA))

\* every way to split a member list in two teams
AllSplits(ms) ==
  {[teamA |-> SelectSeq(ms, LAMBDA m : m.id \in inA),
    teamB |-> SelectSeq(ms, LAMBDA m : m.id \notin inA)] : inA \in SUBSET {m.id : m \in Range(ms)}}

KeepsSameTeam(split, labelRules) ==
  \A label \in SameTeamLabels(labelRules) : ~HeldOnBothSides(split, label)

\* the hidden rule has pre-assigned the pair of the solved list
PairTaken ==
  /\ \E m \in Range(solver.members) : m.nick = WeiRui
  /\ \E m \in Range(solver.members) : m.nick = TuZi
  /\ solver.rnd.pair

NotPreAssigned == IF PairTaken THEN Len(solver.members) - 2 ELSE Len(solver.members)

\* the split leaves the pre-assigned pair on the side the hidden rule drew
KeepsPair(split) ==
  PairTaken =>
    \A m \in Range(solver.members) :
      m.nick \in {WeiRui, TuZi} =>
        m \in Range(IF solver.rnd.pairA THEN split.teamA ELSE split.teamB)

\* C11 as stated: with at most 12 members not pre-assigned, the returned split
\* has the minimum imbalance score among all two-team splits of the member list
\* that satisfy the same_team constraint.
C11_MinimumOfAllSplits ==
  Solved /\ NotPreAssigned <= cspLimit
    => /\ KeepsSameTeam(solver.result, solver.labelRules)
       /\ \A split \in AllSplits(solver.members) :
            KeepsSameTeam(split, solver.labelRules)
              => Imbalance(solver.result, solver.labelRules) <= Imbalance(split, solver.labelRules)

\* C11 amended: the minimum is over the splits that satisfy the same_team
\* constraint and leave the pair the hidden rule pre-assigned where it put it.
C11_MinimumGivenPair ==
  Solved /\ NotPreAssigned <= cspLimit
    => /\ KeepsSameTeam(solver.result, solver.labelRules)
       /\ KeepsPair(solver.result)
       /\ \A split \in AllSplits(solver.members) :
            KeepsSameTeam(split, solver.labelRules) /\ KeepsPair(split)
              => Imbalance(solver.result, solver.labelRules) <= Imbalance(split, solver.labelRules)

\* an exactly solved list with the pair pre-assigned, an even label, and an
\* admissible split that scores worse than the one returned
C11_Witness ==
  /\ Solved
  /\ NotPreAssigned <= cspLimit
  /\ PairTaken
  /\ Len(solver.members) >= 3
  /\ EvenRuleLabels(solver.labelRules) # {}
  /\ \E split \in AllSplits(solver.members) :
       /\ KeepsSameTeam(split, solver.labelRules) /\ KeepsPair(split)
       /\ Imbalance(split, solver.labelRules) > Imbalance(solver.result, solver.labelRules)

NoBalanceRules(labelRules) == \A e \in Range(labelRules) : e[2] \notin {"even", "same_team"}

SizeGap(result) ==
  IF Len(result.teamA) >= Len(result.teamB)
  THEN Len(result.teamA) - Len(result.teamB)
  ELSE Len(result.teamB) - Len(result.teamA)

\* C12 as stated: under a rules map without even and same_team rules the teams
\* differ in size by at most 1, and by 0 when the member count is even, for
\* every member list and random outcome.
C12_SizesBalanced ==
  Solved /\ NoBalanceRules(solver.labelRules)
    => /\ SizeGap(solver.result) <= 1
       /\ Len(solver.members) % 2 = 0 => SizeGap(solver.result) = 0

\* C12 amended: the same, except for the list that is the hidden pair alone
\* when the hidden rule pre-assigns it: both go to one team and the other is
\* empty.
C12_SizesBalancedBeyondPair ==
  Solved /\ NoBalanceRules(solver.labelRules)
    => IF PairTaken /\ NotPreAssigned = 0
       THEN SizeGap(solver.result) = 2
       ELSE /\ SizeGap(solver.result) <= 1
            /\ Len(solver.members) % 2 = 0 => SizeGap(solver.result) = 0

\* a solved list of three under no balancing rule, its pair pre-assigned
C12_Witness ==
  /\ Solved
  /\ NoBalanceRules(solver.labelRules)
  /\ PairTaken
  /\ Len(solver.members) = 3
  /\ SizeGap(solver.result) = 1

\* C13: the two teams partition the input: every member of the list is in
\* exactly one team, none twice, none dropped.
C13_TeamsPartitionInput ==
  Solved
    => LET all == solver.result.teamA \o solver.result.teamB
       IN /\ Len(all) = Len(solver.members)
          /\ Range(all) = Range(solver.members)
          /\ \A i, j \in 1..Len(all) : all[i].id = all[j].id => i = j

\* a solved list with the pair pre-assigned, a same_team rule with holders on
\* the list, and both teams in use
C13_Witness ==
  /\ Solved
  /\ PairTaken
  /\ Len(solver.members) >= 3
  /\ \E label \in SameTeamLabels(solver.labelRules) :
       \E m \in Range(solver.members) : label \in Range(m.labels)
  /\ solver.result.teamA # <<>> /\ solver.result.teamB # <<>>

IsMultiLabelRun ==
  /\ solver.labelRules = MultiLabelRules
  /\ Len(solver.members) = 10
  /\ Holding(solver.members, "god") = 4
  /\ Holding(solver.members, "male") = 4
  /\ Cardinality({k \in 1..10 : Range(solver.members[k].labels) = {"god", "male"}}) = 2
  /\ Cardinality({k \in 1..10 : solver.members[k].labels = <<>>}) = 4

\* C14: ten members, two of them god and male, two god, two male, four without
\* labels, under {god: even, male: even}: both teams have five members and the
\* god counts and the male counts of the teams differ by at most 1.
C14_MultiLabelBalanced ==
  Solved /\ IsMultiLabelRun
    => /\ Len(solver.result.teamA) = 5 /\ Len(solver.result.teamB) = 5
       /\ SumImbalance(solver.result.teamA, solver.result.teamB, {"god"}) <= 1
       /\ SumImbalance(solver.result.teamA, solver.result.teamB, {"male"}) <= 1

\* the scenario solved, with holders of each label on both teams
C14_Witness ==
  /\ Solved
  /\ IsMultiLabelRun
  /\ \A label \in {"god", "male"} : HeldOnBothSides(solver.result, label)

(***************************************************************************)
(* Properties of single calls                                              *)
(***************************************************************************)
Quiescent == \A p \in DOMAIN calls : calls[p] = Idle

\* the database after the owner of the room under code has called
\* redivideTeams and got the answer, nothing else running
AfterRedivide(code, rnd) ==
  RunCall(World, Request("redivideTeams", rooms[code].ownerId, code, Null), code, rnd).w

MembershipsOf(w, code) ==
  {m \in Range(w.members) : w.rooms[code] # NoRoom /\ m.roomId = w.rooms[code].id}

\* C15: every redivideTeams call of the owner on a divided room ends with the
\* room holding the same set of memberships as before the call and with every
\* membership assigned to team_a or team_b, whatever the member count.
C15_RedivideKeepsAllAssigned ==
  \A code \in Existing :
    Quiescent /\ rooms[code].status = "divided"
      => \A rnd \in Rnd :
           /\ {m.userId : m \in MembershipsOf(AfterRedivide(code, rnd), code)}
                = {m.userId : m \in MembershipsOf(World, code)}
           /\ \A m \in MembershipsOf(AfterRedivide(code, rnd), code) :
                m.team \in {"team_a", "team_b"}

\* the events request number id has published
PublishedBy(id) == {k \in 1..Len(events) : events[k].by.id = id}

\* C16: an event is published only if the state change was committed: when a
\* repository write of an operation fails, no event of that operation has
\* been or is published.
C16_NoEventOfFailedWrite ==
  \A r \in Range(resp) : r.res \in {"WriteFailed", "Internal"} => PublishedBy(r.id) = {}

\* the member-joined events that joinRoom calls published
JoinEvents ==
  {k \in 1..Len(events) : events[k].event = "member-joined" /\ events[k].by.op = "joinRoom"}

\* the place of user's row among the membership rows, in insertion order
JoinedAt(user) == CHOOSE i \in 1..Len(members) : members[i].userId = user

\* C17: events reach the publisher in the order of the state transitions that
\* caused them, each carrying the room state its own transition produced, and
\* no event with an older snapshot is published after one with a newer
\* snapshot.  Stated for the joins of one room, whose rows are only added:
\* the insert of an earlier event comes first, and the snapshot of a join ends
\* with the joiner's own row.
C17_EventsFollowTransitions ==
  /\ \A i \in JoinEvents : \A j \in JoinEvents :
       i < j /\ events[i].by.user # events[j].by.user
         => JoinedAt(events[i].by.user) < JoinedAt(events[j].by.user)
  /\ \A k \in JoinEvents : events[k].data.room.memberCount = JoinedAt(events[k].by.user)
  /\ \A i \in JoinEvents : \A j \in JoinEvents :
       i < j => events[i].data.room.memberCount <= events[j].data.room.memberCount

\* the step appends one event named event, on the room's channel, of request c
PublishesOnly(c, event) ==
  /\ Len(events') = Len(events) + 1
  /\ SubSeq(events', 1, Len(events)) = events
  /\ events'[Len(events')].event = event
  /\ events'[Len(events')].channel = c.code
  /\ events'[Len(events')].by.id = c.id

\* the answer res to request c is sent in the step
AnswersWith(c, res) ==
  /\ Len(resp') = Len(resp) + 1
  /\ resp'[Len(resp')].id = c.id
  /\ resp'[Len(resp')].res = res

\* the room a request loaded and its memberships are gone after the step
LoadedRoomGone(c) ==
  /\ \A code \in Codes : rooms'[code].id # c.snap.room.id
  /\ \A k \in 1..Len(members') : members'[k].roomId # c.snap.room.id

\* one step of request c inside closeAndDeleteRoom: the two deletes
ClosingStep(c) ==
  /\ events' = events
  /\ c.pc = "deleteMembers" => rooms' = rooms /\ resp' = resp
  /\ c.pc = "deleteRoom" => LoadedRoomGone(c) /\ AnswersWith(c, "ok")

\* a step of a closeRoom request, when requests are in flight from the start
CloseRoomStepOk(c) ==
  IF c.pc # "load" THEN ClosingStep(c)
  ELSE IF rooms[c.code] = NoRoom
  THEN UNCHANGED <<rooms, members, events>> /\ AnswersWith(c, "NotFound")
  ELSE IF rooms[c.code].ownerId = c.user
  THEN PublishesOnly(c, "room-closed") /\ UNCHANGED <<rooms, members, resp>>
  ELSE UNCHANGED <<rooms, members, events>> /\ AnswersWith(c, "NotOwner")

\* C18: closeRoom by the owner publishes room-closed before it deletes the
\* memberships and the room, and publishes it exactly once; a caller who is
\* not the owner gets NotOwner and nothing is published or deleted.
C18_CloseRoomPublishesThenDeletes ==
  [][\A c \in Stepping : c.op = "closeRoom" => CloseRoomStepOk(c)]_vars

\* the owner's closeRoom has been answered next to another request: the room
\* is gone and the request has published room-closed once
C18_Witness ==
  /\ AllAnswered
  /\ Len(resp) = 2
  /\ \E k \in 1..2 :
       /\ resp[k].op = "closeRoom" /\ resp[k].res = "ok"
       /\ resp[3 - k].op # "closeRoom"
       /\ Cardinality(PublishedBy(resp[k].id)) = 1
       /\ \A e \in PublishedBy(resp[k].id) : events[e].event = "room-closed"
       /\ rooms[resp[k].code] = NoRoom

\* C19: when the owner calls leaveRoom, the room and all its memberships are
\* deleted, the call publishes exactly one room-closed event and no
\* member-left event, and every later getRoomByCode for that code fails with
\* NotFound.
C19_OwnerLeaveDeletesForGood ==
  \A r \in Range(resp) :
    r.op = "leaveRoom" /\ r.res = "ok" /\ r.user = SeedWorld.rooms[r.code].ownerId
      => /\ Cardinality(PublishedBy(r.id)) = 1
         /\ \A k \in PublishedBy(r.id) : events[k].event = "room-closed"
         /\ \A m \in Range(members) : m.roomId # SeedWorld.rooms[r.code].id
         /\ getRoomByCode(World, r.code) = Null

\* the room of the last snapshot a request published
LastSnapshotOf(id) ==
  events[CHOOSE k \in PublishedBy(id) : \A o \in PublishedBy(id) : o <= k].data.room

\* C20: a successful setMemberLabels or setLabelRules publishes exactly one
\* event, named room-updated (not member-joined), carrying the updated room
\* snapshot.
C20_LabelChangesPublishRoomUpdated ==
  \A r \in Range(resp) :
    r.op \in {"setMemberLabels", "setLabelRules"} /\ r.res = "ok"
      => /\ Cardinality(PublishedBy(r.id)) = 1
         /\ \A k \in PublishedBy(r.id) : events[k].event = "room-updated"
         /\ r.op = "setLabelRules" => LastSnapshotOf(r.id).labelRules = r.arg
         /\ r.op = "setMemberLabels"
              => \E m \in Range(LastSnapshotOf(r.id).members) :
                   m.id = r.arg.memberId /\ m.labels = r.arg.labels

(***************************************************************************)
(* Properties of the checks a handler makes on the room it loaded          *)
(***************************************************************************)
\* C21: in every reachable state the stored labelRules of every room has at
\* most one label whose rule is same_team, whatever setLabelRules calls were
\* made.
C21_AtMostOneSameTeamStored ==
  \A code \in Existing : Cardinality(SameTeamLabels(rooms[code].labelRules)) <= 1

\* a room stores a rules map with a same_team label, next to a room of default
\* rules or as the only room
C21_Witness ==
  \E code \in Existing :
    /\ Cardinality(SameTeamLabels(rooms[code].labelRules)) = 1
    /\ Len(RowsOf(code)) >= 1

\* the step changes no row and publishes nothing, and answers request c with res
RejectedWith(c, res) ==
  /\ UNCHANGED <<rooms, members, events>>
  /\ AnswersWith(c, res)

\* request c is at its first load, by a user who owns / does not own the room
LoadsAsOwner(c) ==
  /\ c.pc \in {"load", "loadRedivide"}
  /\ c.snap = Null
  /\ rooms[c.code] # NoRoom
  /\ rooms[c.code].ownerId = c.user

LoadsAsOther(c) ==
  /\ c.pc \in {"load", "loadRedivide"}
  /\ c.snap = Null
  /\ rooms[c.code] # NoRoom
  /\ rooms[c.code].ownerId # c.user

\* C22: setLabelRules by the owner with two or more labels set to same_team
\* (all rules of the vocabulary) fails with ConflictingRules, leaves the stored
\* labelRules unchanged and publishes no event.
C22_ConflictingRulesRejected ==
  [][\A c \in Stepping :
       /\ c.op = "setLabelRules"
       /\ LoadsAsOwner(c)
       /\ \A e \in Range(c.arg) : e[2] \in LabelRule
       /\ Cardinality(SameTeamLabels(c.arg)) >= 2
       => RejectedWith(c, "ConflictingRules")]_vars

\* the owner's conflicting request has been answered ConflictingRules while the
\* room stores the rules another setLabelRules call saved
C22_Witness ==
  /\ AllAnswered
  /\ \E k \in 1..Len(resp) :
       /\ resp[k].op = "setLabelRules" /\ resp[k].res = "ConflictingRules"
       /\ PublishedBy(resp[k].id) = {}
  /\ \E k \in 1..Len(resp) : resp[k].op = "setLabelRules" /\ resp[k].res = "ok"
  /\ rooms["c1"] # NoRoom
  /\ Cardinality(SameTeamLabels(rooms["c1"].labelRules)) <= 1

\* the user of request c has a membership row of the room stored under c.code
MemberNow(c) ==
  rooms[c.code] # NoRoom /\ \E m \in Range(RowsOf(c.code)) : m.userId = c.user

\* the steps of joinRoom past its checks: the insert of one row with team none
\* and no labels, then the reload that publishes member-joined once
JoinInsertStep(c) ==
  /\ UNCHANGED <<rooms, events>>
  /\ \/ members' = members /\ AnswersWith(c, "Internal")
     \/ /\ Len(members') = Len(members) + 1
        /\ SubSeq(members', 1, Len(members)) = members
        /\ members'[Len(members')].userId = c.user
        /\ members'[Len(members')].roomId = c.snap.room.id
        /\ members'[Len(members')].team = "none"
        /\ members'[Len(members')].labels = <<>>
        /\ resp' = resp

JoinReloadStep(c) ==
  /\ UNCHANGED <<rooms, members>>
  /\ \/ events' = events /\ AnswersWith(c, "NotFound")
     \/ PublishesOnly(c, "member-joined") /\ AnswersWith(c, "ok")

JoinLaterStep(c) ==
  /\ c.pc = "addMember" => JoinInsertStep(c)
  /\ c.pc = "reload" => JoinReloadStep(c)

\* C23 as stated: joinRoom by a user who is already a member returns the
\* current snapshot, changes no membership and publishes no event; a
\* non-member's successful joinRoom adds exactly one membership with team none
\* and publishes exactly one member-joined event.
C23_JoinIdempotentForMembers ==
  [][\A c \in Stepping :
       c.op = "joinRoom"
         => /\ c.pc = "load" /\ MemberNow(c) => RejectedWith(c, "ok")
            /\ c.pc = "load" /\ ~MemberNow(c) => UNCHANGED <<rooms, members, events>>
            /\ JoinLaterStep(c)]_vars

\* C23 amended: the same for a member of a waiting room; a member of a room
\* that is not waiting gets RoomNotJoinable, with no change and no event.
C23_JoinIdempotentWhileWaiting ==
  [][\A c \in Stepping :
       c.op = "joinRoom"
         => /\ c.pc = "load" /\ MemberNow(c) /\ rooms[c.code].status = "waiting"
                 => RejectedWith(c, "ok")
            /\ c.pc = "load" /\ MemberNow(c) /\ rooms[c.code].status # "waiting"
                 => RejectedWith(c, "RoomNotJoinable")
            /\ c.pc = "load" /\ ~MemberNow(c) => UNCHANGED <<rooms, members, events>>
            /\ JoinLaterStep(c)]_vars

\* member u2 and non-member u3 have both called joinRoom with success: u2's
\* call published nothing, u3's call one member-joined, and u3 has one row
C23_Witness ==
  /\ AllAnswered
  /\ Len(resp) = 2
  /\ \E k \in 1..2 :
       /\ resp[k].op = "joinRoom" /\ resp[k].user = "u2" /\ resp[k].res = "ok"
       /\ PublishedBy(resp[k].id) = {}
       /\ resp[3 - k].op = "joinRoom" /\ resp[3 - k].user = "u3" /\ resp[3 - k].res = "ok"
       /\ Cardinality(PublishedBy(resp[3 - k].id)) = 1
  /\ Cardinality({k \in 1..Len(members) : members[k].userId = "u3"}) = 1

\* C24: joinRoom by a non-member fails with RoomNotJoinable whenever the
\* room's status is not waiting, and with RoomFull whenever the status is
\* waiting and memberCount equals maxMembers; no membership is added and no
\* event is published.
C24_JoinRejectedWhenClosedOrFull ==
  [][\A c \in Stepping :
       c.op = "joinRoom" /\ c.pc = "load" /\ rooms[c.code] # NoRoom /\ ~MemberNow(c)
         => /\ rooms[c.code].status # "waiting" => RejectedWith(c, "RoomNotJoinable")
            /\ rooms[c.code].status = "waiting"
                 /\ Len(RowsOf(c.code)) = rooms[c.code].maxMembers
                 => RejectedWith(c, "RoomFull")]_vars

\* two non-members have called joinRoom: one got in and filled the room, the
\* other was answered RoomFull and has no row
C24_Witness ==
  /\ AllAnswered
  /\ Len(resp) = 2
  /\ \E k \in 1..2 :
       /\ resp[k].op = "joinRoom" /\ resp[k].res = "ok"
       /\ resp[3 - k].op = "joinRoom" /\ resp[3 - k].res = "RoomFull"
       /\ \A m \in Range(members) : m.userId # resp[3 - k].user
  /\ rooms["c1"] # NoRoom
  /\ Len(RowsOf("c1")) = rooms["c1"].maxMembers

OwnerOnlyOps ==
  {"removeMember", "closeRoom", "setMemberLabels", "setLabelRules", "divideTeams",
   "redivideTeams"}

\* C25: each owner-only operation called by a user who is not the room's owner
\* fails with NotOwner, changes no room, membership, rule or division state,
\* and publishes no event.
C25_OwnerOnlyRejectsOthers ==
  [][\A c \in Stepping :
       c.op \in OwnerOnlyOps /\ LoadsAsOther(c) => RejectedWith(c, "NotOwner")]_vars

\* member u2 has called two different owner-only operations and both were
\* answered NotOwner, with the room as the seed left it
C25_Witness ==
  /\ AllAnswered
  /\ Len(resp) = 2
  /\ resp[1].op # resp[2].op
  /\ \A k \in 1..2 : resp[k].op \in OwnerOnlyOps /\ resp[k].res = "NotOwner"
  /\ World = SeedWorld

\* C26: divideTeams by the owner fails with WrongStatus when the room's status
\* is not waiting and with TooFewMembers when the room has fewer than 2
\* members; status, teams and divisionResult stay unchanged and no
\* teams-divided event is published.
C26_DivideRejectedWhenNotReady ==
  [][\A c \in Stepping :
       c.op = "divideTeams" /\ LoadsAsOwner(c)
         => /\ rooms[c.code].status # "waiting" => RejectedWith(c, "WrongStatus")
            /\ rooms[c.code].status = "waiting" /\ Len(RowsOf(c.code)) < 2
                 => RejectedWith(c, "TooFewMembers")]_vars

\* of two divideTeams calls of the owner one divided the room and the other
\* was answered WrongStatus, with one teams-divided event in all
C26_Witness ==
  /\ AllAnswered
  /\ Len(resp) = 2
  /\ \E k \in 1..2 :
       /\ resp[k].op = "divideTeams" /\ resp[k].res = "ok"
       /\ resp[3 - k].op = "divideTeams" /\ resp[3 - k].res = "WrongStatus"
       /\ PublishedBy(resp[3 - k].id) = {}
  /\ rooms["c1"] # NoRoom /\ rooms["c1"].status = "divided"

\* what the memberships of the room under code look like, row keys aside
MembershipView(w, code) ==
  {[userId |-> m.userId, team |-> m.team, labels |-> m.labels] : m \in MembershipsOf(w, code)}

\* user joins the room under code and, once answered, leaves it, nothing else
\* running
JoinRun(code, user) == RunCall(World, Request("joinRoom", user, code, Null), code, NoDraws)

ThenLeaveRun(joined, code, user) ==
  RunCall(joined.w, Request("leaveRoom", user, code, Null), code, NoDraws)

EventNames(w, from) == [k \in 1..(Len(w.events) - from) |-> w.events[from + k].event]

JoinLeaveRestores(joined, left, code) ==
  joined.c.res = "ok"
    => /\ left.c.res = "ok"
       /\ MembershipView(left.w, code) = MembershipView(World, code)
       /\ EventNames(left.w, Len(events)) = <<"member-joined", "member-left">>

\* C27: for a waiting room and a user who is not a member, a successful
\* joinRoom followed by that user's leaveRoom returns the membership set
\* (members, teams, labels) to what it was before the join and publishes
\* member-joined then member-left, in that order.
C27_JoinThenLeaveRestores ==
  \A code \in Existing : \A user \in Users :
    /\ Quiescent
    /\ rooms[code].status = "waiting"
    /\ \A m \in Range(RowsOf(code)) : m.userId # user
    => \E joined \in {JoinRun(code, user)} :
         \E left \in {ThenLeaveRun(joined, code, user)} :
           JoinLeaveRestores(joined, left, code)

\* u3 has joined the waiting room and then left it: the last two events are
\* member-joined and member-left of u3 and the memberships are the seed's
C27_Witness ==
  /\ Quiescent
  /\ resp # <<>>
  /\ resp[1].op = "leaveRoom" /\ resp[1].user = "u3" /\ resp[1].res = "ok"
  /\ Len(events) >= 2
  /\ events[Len(events) - 1].event = "member-joined"
  /\ events[Len(events) - 1].by.user = "u3"
  /\ events[Len(events)].event = "member-left"
  /\ events[Len(events)].by.user = "u3"
  /\ MembershipView(World, "c1") = MembershipView(SeedWorld, "c1")

(***************************************************************************)
(* Properties of the publisher                                             *)
(***************************************************************************)
Operations ==
  {"createRoom", "joinRoom", "leaveRoom", "removeMember", "closeRoom", "divideTeams",
   "redivideTeams", "setMemberLabels", "setLabelRules"}

AnyRequest == UNION {Requests(op) : op \in Operations}

\* the generated codes and the random draws request c can consume
SamplesOf(c) == IF c.op = "createRoom" THEN Codes ELSE {"c1"}

DrawsOf(c) == IF c.op \in {"divideTeams", "redivideTeams"} THEN Rnd ELSE {NoDraws}

\* request c run alone on the database as it stands, with a publisher that
\* rejects and with one that resolves
RunWhileDown(c, sample, rnd) == RunCall([World EXCEPT !.pusher = FALSE], c, sample, rnd)

RunWhileUp(c, sample, rnd) == RunCall([World EXCEPT !.pusher = TRUE], c, sample, rnd)

SameOutcome(down, up) ==
  /\ down.c.res = up.c.res
  /\ down.w.rooms = up.w.rooms
  /\ down.w.members = up.w.members
  /\ down.w.nextId = up.w.nextId
  /\ down.w.events = events

\* C28: a rejecting pusher.trigger never makes the enclosing operation fail
\* and never rolls back or alters what the operation committed: every
\* operation returns the result, and leaves the rooms and memberships, it
\* returns and leaves when publishing succeeds.
C28_PublisherFailureIsSwallowed ==
  ~pusher /\ Quiescent
    => \A c \in AnyRequest : \A sample \in SamplesOf(c) : \A rnd \in DrawsOf(c) :
         \E down \in {RunWhileDown(c, sample, rnd)} :
           \E up \in {RunWhileUp(c, sample, rnd)} : SameOutcome(down, up)

\* with the publisher down u3's joinRoom has been answered ok and its row is
\* stored, and nothing was published for it
C28_Witness ==
  /\ ~pusher /\ Quiescent
  /\ resp # <<>>
  /\ resp[1].op = "joinRoom" /\ resp[1].user = "u3" /\ resp[1].res = "ok"
  /\ \E m \in Range(members) : m.userId = "u3"
  /\ PublishedBy(resp[1].id) = {}

(***************************************************************************)
(* Queries                                                                 *)
(***************************************************************************)
\* memberRepository.findOne({ where: { userId } }): no order is given, so the
\* database may return any of the user's rows
RowsOfUser(w, userId) == {k \in 1..Len(w.members) : w.members[k].userId = userId}

\* relations: ['room']: the room the row points to, if it is still stored
RoomOfRow(w, member) == {code \in Codes : w.rooms[code] # NoRoom /\ w.rooms[code].id = member.roomId}

\* getMyJoinedRoom(userId) when findOne returns row k (0: no row): the room
\* returned, or Null
getMyJoinedRoom(w, userId, k) ==
  IF k = 0 THEN Null
  ELSE IF RoomOfRow(w, w.members[k]) = {} THEN Null
  ELSE LET code == CHOOSE x \in RoomOfRow(w, w.members[k]) : TRUE
       IN IF w.rooms[code].status = "closed" \/ w.rooms[code].ownerId = userId THEN Null
          ELSE w.rooms[code]

FindOneOutcomes(w, userId) == IF RowsOfUser(w, userId) = {} THEN {0} ELSE RowsOfUser(w, userId)

\* the non-closed rooms the user belongs to and does not own
JoinedRoomsOf(userId) ==
  {rooms[code] : code \in {code \in Existing :
     /\ rooms[code].status # "closed"
     /\ rooms[code].ownerId # userId
     /\ \E m \in Range(RowsOf(code)) : m.userId = userId}}

\* C29: getMyJoinedRoom(u) returns a non-closed room that u belongs to and
\* does not own whenever at least one exists, and null only when none exists,
\* also when u is a member of a room u owns.
C29_JoinedRoomFound ==
  \A u \in Users : \A k \in FindOneOutcomes(World, u) :
    \E found \in {getMyJoinedRoom(World, u, k)} :
      /\ JoinedRoomsOf(u) # {} => found \in JoinedRoomsOf(u)
      /\ found = Null => JoinedRoomsOf(u) = {}

(***************************************************************************)
(* The mini-program client of the room channels (utils/pusher.ts)          *)
(***************************************************************************)
\* sockets wx.connectSocket hands out in one run, and the channels subscribed
MaxSockets == 3

Channels == {"room-c1", "room-c2"}

Sockets == 1..MaxSockets

\* the event names the room page binds callbacks under
BoundEvents == {"member-joined", "member-left", "room-closed", "teams-divided"}

\* callbacks: new Map() of a channel entry, as the length of each event's list
NoCallbacks == [e \in BoundEvents |-> 0]

\* new MiniProgramPusher(key, cluster): the fields of the object (the channels
\* map as its key set and the callbacks of each entry), then the sockets it
\* created (state and the channels Pusher has them subscribed to) and how
\* many times each callback ran for the event published last
NewClient ==
  [socketTask |-> 0, isConnected |-> FALSE, reconnectTimer |-> FALSE, channels |-> {},
   callbacks |-> [name \in Channels |-> NoCallbacks],
   sock |-> [s \in Sockets |-> "none"], subs |-> [s \in Sockets |-> {}],
   delivered |-> 0]

FreshSockets(cl) == {s \in Sockets : cl.sock[s] = "none" /\ \A t \in Sockets : t < s => cl.sock[t] # "none"}

\* connect(): returns when a socketTask is held, else opens a socket and
\* registers the four handlers on it
connect(cl, s) ==
  IF cl.socketTask # 0 THEN cl
  ELSE [cl EXCEPT !.socketTask = s, !.sock[s] = "connecting"]

\* sendSubscribe(channelName): sent on the socketTask held now, when connected
sendSubscribe(cl, names) ==
  IF cl.socketTask = 0 \/ ~cl.isConnected THEN cl
  ELSE [cl EXCEPT !.subs[cl.socketTask] = @ \cup names]

\* handleMessage of pusher:connection_established: isConnected, then
\* sendSubscribe for every channel of the map
connectionEstablished(cl) == sendSubscribe([cl EXCEPT !.isConnected = TRUE], cl.channels)

\* subscribe(channelName): a channel not in the map gets an entry with no
\* callbacks and is sent; the entry of one in the map is handed back as it is
subscribe(cl, name) ==
  IF name \in cl.channels THEN cl
  ELSE sendSubscribe([cl EXCEPT !.channels = @ \cup {name}, !.callbacks[name] = NoCallbacks], {name})

\* bind(event, callback) on the entry subscribe handed back: the callback is
\* pushed onto the list of the event
bind(cl, name, e) == [cl EXCEPT !.callbacks[name][e] = @ + 1]

\* unsubscribe(channelName): the channel leaves the map and pusher:unsubscribe
\* is sent on the socketTask held now, when connected
unsubscribe(cl, name) ==
  IF name \notin cl.channels THEN cl
  ELSE IF cl.socketTask # 0 /\ cl.isConnected
  THEN [cl EXCEPT !.channels = @ \ {name}, !.callbacks[name] = NoCallbacks,
                  !.subs[cl.socketTask] = @ \ {name}]
  ELSE [cl EXCEPT !.channels = @ \ {name}, !.callbacks[name] = NoCallbacks]

\* disconnect(): the timer is cleared, close() is called on the socketTask
\* held now (its onClose fires later), the fields are reset
disconnect(cl) ==
  [cl EXCEPT !.reconnectTimer = FALSE,
             !.sock = IF cl.socketTask = 0 THEN @ ELSE [@ EXCEPT ![cl.socketTask] = "closing"],
             !.socketTask = 0,
             !.isConnected = FALSE,
             !.channels = {},
             !.callbacks = [name \in Channels |-> NoCallbacks]]

\* the onClose handler registered on socket s: it resets the fields of the
\* client, whichever socket the client holds by then, and schedules a reconnect
onClose(cl, s) ==
  [cl EXCEPT !.sock[s] = "closed", !.subs[s] = {},
             !.isConnected = FALSE, !.socketTask = 0, !.reconnectTimer = TRUE]

\* the sockets on which Pusher delivers an event of the channel
Receiving(cl, name) == {s \in Sockets : cl.sock[s] = "open" /\ name \in cl.subs[s]}

\* handleMessage of a channel event, once per socket the message arrives on:
\* the callbacks of the channel run if the channel is in the map
handleEvent(cl, name) ==
  [cl EXCEPT !.delivered = IF name \in cl.channels THEN Cardinality(Receiving(cl, name)) ELSE 0]

\* the room service, the page and the polling service, which the client does
\* not touch
backend == <<rooms, members, nextId, events, calls, ncalls, trace, resp, solver, pusher,
             page, polling>>

ApplyClient(cl) ==
  /\ client' = cl
  /\ UNCHANGED backend

Connect ==
  /\ client.socketTask = 0
  /\ \E s \in FreshSockets(client) : ApplyClient(connect(client, s))

Established ==
  \E s \in Sockets : client.sock[s] = "connecting" /\
    ApplyClient(connectionEstablished([client EXCEPT !.sock[s] = "open"]))

Subscribe ==
  \E name \in Channels : name \notin client.channels /\
    ApplyClient(bind(subscribe(client, name), name, "member-joined"))

Unsubscribe ==
  \E name \in Channels : name \in client.channels /\ ApplyClient(unsubscribe(client, name))

Disconnect ==
  /\ client' = disconnect(client)
  /\ UNCHANGED backend

\* a socket closes: after close(), or because the network or Pusher drops it
SocketClosed ==
  \E s \in Sockets : client.sock[s] \in {"connecting", "open", "closing"} /\
    ApplyClient(onClose(client, s))

\* the timer of scheduleReconnect fires: connect()
ReconnectTimer ==
  /\ client.reconnectTimer
  /\ \/ client.socketTask # 0 /\ ApplyClient([client EXCEPT !.reconnectTimer = FALSE])
     \/ \E s \in FreshSockets(client) :
          ApplyClient(connect([client EXCEPT !.reconnectTimer = FALSE], s))

\* the room service publishes an event on a channel
ChannelEvent ==
  \E name \in Channels :
    /\ client' = handleEvent(client, name)
    /\ UNCHANGED backend

ClientInit ==
  /\ rooms = [code \in Codes |-> NoRoom]
  /\ members = <<>>
  /\ nextId = 1
  /\ events = <<>>
  /\ calls = [p \in Slots |-> Idle]
  /\ ncalls = 0
  /\ trace = "off"
  /\ resp = <<>>
  /\ solver = Null
  /\ pusher = TRUE
  /\ client = NewClient
  /\ page = Null
  /\ polling = Null

ClientNext ==
  \/ Connect
  \/ Established
  \/ Subscribe
  \/ Unsubscribe
  \/ Disconnect
  \/ SocketClosed
  \/ ReconnectTimer
  \/ ChannelEvent

ClientSpec == ClientInit /\ [][ClientNext]_vars

\* C30: every published event is delivered to each bound callback of a
\* subscribed client at most once, for any sequence of connect, disconnect,
\* subscribe and unsubscribe calls and socket open and close events: no two
\* live sockets are subscribed to the same channel at once.
C30_DeliveredAtMostOnce ==
  /\ client.delivered <= 1
  /\ \A name \in Channels : Cardinality(Receiving(client, name)) <= 1

(***************************************************************************)
(* Failing calls, the hidden pair, 2-opt and code generation               *)
(***************************************************************************)
\* the owner of the room under code calls redivideTeams, nothing else running
RedivideRun(code, rnd) ==
  RunCall(World, Request("redivideTeams", rooms[code].ownerId, code, Null), code, rnd)

\* C31: a redivideTeams call that fails leaves the room as it was before the
\* call: status still divided, every membership's team unchanged and
\* divisionResult unchanged.
C31_FailedRedivideChangesNothing ==
  \A code \in Existing :
    Quiescent /\ rooms[code].status = "divided"
      => \A rnd \in Rnd :
           \E run \in {RedivideRun(code, rnd)} :
             run.c.res # "ok"
               => /\ run.w.rooms[code] = rooms[code]
                  /\ MembershipsOf(run.w, code) = MembershipsOf(World, code)

\* the solved list went to the greedy fallback, and what its 2-opt started from
OnGreedyPath == Solved /\ NotPreAssigned > cspLimit

PairSides ==
  IF ~PairTaken THEN Null
  ELSE LET pair == SelectSeq(solver.members, LAMBDA m : m.nick \in {WeiRui, TuZi})
       IN IF solver.rnd.pairA THEN [teamA |-> pair, teamB |-> <<>>]
          ELSE [teamA |-> <<>>, teamB |-> pair]

SolvedStart ==
  GreedyStart(SelectSeq(solver.members, LAMBDA m : ~(PairTaken /\ m.nick \in {WeiRui, TuZi})),
              EvenLabelsOf(solver.labelRules), SameTeamLabelOf(solver.labelRules), PairSides,
              solver.rnd.targetA)

\* 2-opt changed the teams the greedy placement had built
TwoOptSwapped ==
  OnGreedyPath /\ \E g \in {SolvedStart} : g.teamA # solver.result.teamA

\* C32: when a member named WeiRui and a member named TuZi are present and the
\* hidden-rule pre-assignment is taken, both are in the same team of the
\* result, the one the rule drew, on the exact and on the greedy path: no
\* enumeration, placement or 2-opt swap moves a pre-assigned member.
C32_PairStaysTogether ==
  Solved /\ PairTaken
    => /\ KeepsPair(solver.result)
       /\ \A m \in Range(solver.members) :
            m.nick \in {WeiRui, TuZi}
              => m \notin Range(IF solver.rnd.pairA THEN solver.result.teamB
                                ELSE solver.result.teamA)

\* the pair was pre-assigned on a long list and 2-opt committed a swap
C32_Witness == Solved /\ PairTaken /\ TwoOptSwapped /\ KeepsPair(solver.result)

\* the teams of the solved long list after the first k committing sweeps
AfterSweeps(k) == CHOOSE r \in {TwoOptUpTo(SolvedStart.teamA, SolvedStart.teamB,
                                           EvenLabelsOf(solver.labelRules),
                                           SameTeamLabelOf(solver.labelRules),
                                           SolvedStart.protectedIds, 0, k)} : TRUE

ScoreOf(t) == calculateScore(t.teamA, t.teamB, EvenLabelsOf(solver.labelRules))

\* the members 2-opt may not move: the pre-assigned pair and the holders of
\* the same_team label
Fixed(m) ==
  \/ m.id \in SolvedStart.protectedIds
  \/ HasLabel(m, SameTeamLabelOf(solver.labelRules))

\* from teams a to teams b one pair was exchanged: sizes kept, score lower,
\* fixed members where they were
GoodSwap(a, b) ==
  /\ ScoreOf(b) < ScoreOf(a)
  /\ Len(b.teamA) = Len(a.teamA) /\ Len(b.teamB) = Len(a.teamB)
  /\ Cardinality({i \in 1..Len(a.teamA) : a.teamA[i] # b.teamA[i]}) = 1
  /\ Cardinality({j \in 1..Len(a.teamB) : a.teamB[j] # b.teamB[j]}) = 1
  /\ \A i \in 1..Len(a.teamA) : Fixed(a.teamA[i]) => b.teamA[i] = a.teamA[i]
  /\ \A j \in 1..Len(a.teamB) : Fixed(a.teamB[j]) => b.teamB[j] = a.teamB[j]

\* the sweeps of the while loop: the committing ones and, unless the limit cut
\* the loop, the one that found nothing
SweepsRun(last) == IF last.iterations < maxIterations THEN last.iterations + 1 ELSE maxIterations

TwoOptSound(last) ==
  /\ SweepsRun(last) <= maxIterations
  /\ \A k \in 0..(last.iterations - 1) : GoodSwap(AfterSweeps(k), AfterSweeps(k + 1))
  /\ last.iterations < maxIterations
       => ImprovingSwaps(last.teamA, last.teamB, EvenLabelsOf(solver.labelRules),
                         SameTeamLabelOf(solver.labelRules), SolvedStart.protectedIds) = {}
  /\ solver.result.teamA = last.teamA /\ solver.result.teamB = last.teamB

\* C33: the 2-opt phase ends after at most maxIterations sweeps; each
\* committed swap strictly lowers the score, keeps both team sizes and moves
\* no pre-assigned or same_team member, and the loop stops at the first sweep
\* that commits no swap.
C33_TwoOptTerminatesAndImproves ==
  OnGreedyPath => \E last \in {AfterSweeps(maxIterations)} : TwoOptSound(last)

\* 2-opt committed two swaps on a long list with a same-side pair
C33_Witness ==
  /\ OnGreedyPath
  /\ AfterSweeps(maxIterations).iterations >= 2
  /\ ScoreOf(solver.result) < ScoreOf(SolvedStart)

\* generateRoomCode is at one of its lookups in the request that steps
Generating(c) == c.op = "createRoom" /\ c.pc = "generate" /\ c \in Range(calls)

InUse == {code \in Codes : rooms[code] # NoRoom}

\* one lookup of generateRoomCode: nothing is written; the sampled code is
\* returned if no room uses it, else the next attempt follows while fewer than
\* maxAttempts lookups were made, else the request ends with CodeExhausted
LookupStep(c, p) ==
  /\ c.i < maxAttempts
  /\ UNCHANGED <<rooms, members, nextId, events>>
  /\ \/ \E code \in Codes \ InUse :
          calls'[p] = [c EXCEPT !.pc = "saveRoom", !.code = code, !.i = 0]
     \/ /\ InUse # {}
        /\ c.i + 1 < maxAttempts
        /\ calls'[p] = [c EXCEPT !.i = c.i + 1]
     \/ /\ InUse # {}
        /\ c.i + 1 = maxAttempts
        /\ calls'[p] = Idle
        /\ resp' = <<Response([c EXCEPT !.pc = "done", !.res = "CodeExhausted"])>>

\* createRoom run alone with every sampled code equal to sample
CreateRun(user, sample) ==
  RunCall(World, Request("createRoom", user, "", 0), sample, NoDraws)

CreateRunOk(user, sample) ==
  \E run \in {CreateRun(user, sample)} :
    /\ run.c.res = "CodeExhausted" <=> ~HasWaitingRoom(World, user) /\ sample \in InUse
    /\ run.c.res = "CodeExhausted" => run.w = World
    /\ run.c.res = "ok" => run.c.code = sample /\ sample \notin InUse

\* C34: generateRoomCode ends after at most maxAttempts lookups: it returns
\* the first sampled code no room uses and fails with CodeExhausted exactly
\* when all maxAttempts sampled codes are in use; createRoom then persists no
\* room and no membership.
C34_CodeGenerationBounded ==
  /\ [](Quiescent => \A user \in Users : \A sample \in Codes : CreateRunOk(user, sample))
  /\ [][\A p \in DOMAIN calls :
          calls[p] # Idle /\ calls'[p] # calls[p] /\ Generating(calls[p])
            => LookupStep(calls[p], p)]_vars

\* u3's createRoom has been answered CodeExhausted with both codes in use
C34_Witness ==
  /\ Quiescent
  /\ InUse = Codes
  /\ resp # <<>>
  /\ resp[1].op = "createRoom" /\ resp[1].res = "CodeExhausted"

\* the solved list is one the exact solver takes whole: no special pair, at
\* most cspLimit members
ExactWithoutPair ==
  /\ Solved
  /\ Len(solver.members) <= cspLimit
  /\ ~(/\ \E m \in Range(solver.members) : m.nick = WeiRui
       /\ \E m \in Range(solver.members) : m.nick = TuZi)

\* the bitmask of one split is lower than that of another: the highest member
\* position on which their A teams differ is in the other's
LowerMask(split, other) ==
  LET a == {m.id : m \in Range(split.teamA)}
      b == {m.id : m \in Range(other.teamA)}
      diff == (a \ b) \cup (b \ a)
  IN diff # {} /\ (CHOOSE i \in diff : \A j \in diff : j <= i) \in b

\* the splits of the solved list no cheaper than the result that tie with it
TiedSplits ==
  {split \in AllSplits(solver.members) :
     /\ KeepsSameTeam(split, solver.labelRules)
     /\ Imbalance(split, solver.labelRules) = Imbalance(solver.result, solver.labelRules)
     /\ split # solver.result}

LowestMaskMinimum ==
  \E best \in {Imbalance(solver.result, solver.labelRules)} :
    /\ solver.result \in AllSplits(solver.members)
    /\ \A split \in AllSplits(solver.members) :
         KeepsSameTeam(split, solver.labelRules)
           => \/ Imbalance(split, solver.labelRules) > best
              \/ Imbalance(split, solver.labelRules) = best /\ LowerMask(solver.result, split)
              \/ split = solver.result

\* the draws of a second run: all of them on the short lists, the opposite of
\* every draw of the first run on the long ones
SecondDraws ==
  IF Len(solver.members) <= MaxExact THEN Rnd
  ELSE {[pair |-> ~solver.rnd.pair, pairA |-> ~solver.rnd.pairA, targetA |-> ~solver.rnd.targetA]}

\* getRoomByCode loads room.members without an order: the orders in which the
\* repository may hand the same rows to a later call (here the rotations and
\* the reversal of the list)
LoadOrders(ms) ==
  {[i \in 1..Len(ms) |-> ms[((i + k - 1) % Len(ms)) + 1]] : k \in 0..(Len(ms) - 1)}
    \cup {[i \in 1..Len(ms) |-> ms[Len(ms) + 1 - i]]}

SameTeams(r, t) == Range(r.teamA) = Range(t.teamA) /\ Range(r.teamB) = Range(t.teamB)

\* C35 as stated: without the special pair and with at most 12 members
\* divideWithRules returns the same teams (the lowest-mask minimum) on every
\* run, so a redivideTeams on an unchanged room, which loads the same
\* memberships again, reproduces the same teams.
C35_RedivideReproducesTeams ==
  ExactWithoutPair
    => \A rnd \in SecondDraws : \A loaded \in LoadOrders(solver.members) :
         \E again \in {divideWithRules(loaded, solver.labelRules, rnd)} :
           SameTeams(again, solver.result)

\* C35 amended: without the special pair and with at most 12 members two runs
\* on the same ordered member list, labels and rules return identical teamA
\* and teamB, the lowest-mask minimum, whatever the random draws.
C35_DeterministicOnSameOrder ==
  ExactWithoutPair
    => /\ \A rnd \in SecondDraws :
            divideWithRules(solver.members, solver.labelRules, rnd) = solver.result
       /\ Len(solver.members) >= 2 => LowestMaskMinimum

\* a list of ten members without the pair was solved and other splits tie
\* with the one returned
C35_Witness ==
  /\ ExactWithoutPair
  /\ Len(solver.members) = 10
  /\ TiedSplits # {}
  /\ \A split \in TiedSplits : LowerMask(solver.result, split)

(***************************************************************************)
(* Memberships and their room                                              *)
(***************************************************************************)
StoredRoomIds == {rooms[code].id : code \in Existing}

\* C36: in every reachable state every membership refers to an existing room:
\* when closeRoom or the owner's leaveRoom completes, no membership of the
\* deleted room remains, also when a joinRoom on the same room runs
\* concurrently with the close.
C36_NoMembershipWithoutRoom ==
  /\ [](\A m \in Range(members) : m.roomId \in StoredRoomIds)
  /\ [][\A c \in Stepping :
          c.op \in {"closeRoom", "leaveRoom"} /\ c.pc = "deleteRoom"
            => LoadedRoomGone(c) /\ AnswersWith(c, "ok")]_vars

\* the owner's close and u3's joinRoom ran together: the join inserted its row
\* and found no room when it reloaded, the close was answered, and no room
\* and no membership is left
C36_Witness ==
  /\ AllAnswered
  /\ \E k \in 1..Len(resp) : resp[k].op \in {"closeRoom", "leaveRoom"} /\ resp[k].res = "ok"
  /\ \E k \in 1..Len(resp) : resp[k].op = "joinRoom" /\ resp[k].res = "NotFound"
  /\ nextId = SeedWorld.nextId + 1
  /\ Existing = {}
  /\ members = <<>>

(***************************************************************************)
(* Reconnection of the client                                              *)
(***************************************************************************)
\* what disconnect() leaves and connect() ends: no socket held, no timer
Stopped(cl) == cl.socketTask = 0 /\ ~cl.reconnectTimer

\* C37: after disconnect() the client opens no new socket and schedules no
\* reconnect until connect() is called again, whatever order onClose and the
\* reconnect timer fire in: a client that holds no socket and no timer stays
\* so in every step but a connect() call.
C37_QuietAfterDisconnect ==
  [][Stopped(client) /\ ~Stopped(client')
       => \E s \in FreshSockets(client) : client' = connect(client, s)]_vars

\* pusher:connection_established arrives on socket s in this step
EstablishedOn(s) == client.sock[s] = "connecting" /\ client'.sock[s] = "open"

\* Pusher has the channel subscribed on a socket that is open
SubscribedSomewhere(cl, name) == \E t \in Sockets : cl.sock[t] = "open" /\ name \in cl.subs[t]

\* C38: every channel in the channels map when pusher:connection_established
\* arrives gets a pusher:subscribe sent on the current socket, so a channel
\* subscribed before the connection is established or kept across an unexpected
\* close is subscribed once the (re)connection is established.
C38_EstablishedSubscribesAll ==
  [][\A s \in Sockets :
       EstablishedOn(s) => \A name \in client.channels : SubscribedSomewhere(client', name)]_vars

(***************************************************************************)
(* The room page (pages/room/room.ts)                                      *)
(***************************************************************************)
\* Page({...}) before onLoad: data.roomCode, _pusherChannel (held or null),
\* whether onLoad still awaits loadRoomDetail, and where the page is in its
\* life: "new", "open" (loaded and not unloaded) or "unloaded"
NewPage == [roomCode |-> "", pusherChannel |-> FALSE, loading |-> FALSE, phase |-> "new"]

\* `room-${roomCode}`
ChannelOf(roomCode) == "room-" \o roomCode

\* the socket wx.connectSocket hands out if connect() opens one
SocketChoices(cl) == IF cl.socketTask # 0 THEN {0} ELSE FreshSockets(cl)

\* subscribePusher(roomCode): connect(), subscribe the channel of the room,
\* keep what subscribe returned and bind one callback under each of the four
\* event names
subscribePusher(cl, pg, roomCode, s) ==
  LET name == ChannelOf(roomCode)
      channel == subscribe(connect(cl, s), name)
  IN  [client |-> bind(bind(bind(bind(channel, name, "member-joined"), name, "member-left"),
                            name, "room-closed"), name, "teams-divided"),
       page |-> [pg EXCEPT !.pusherChannel = TRUE]]

\* unsubscribePusher(): unsubscribe the channel of data.roomCode, if any, and
\* drop _pusherChannel
unsubscribePusher(cl, pg) ==
  [client |-> IF pg.roomCode # "" THEN unsubscribe(cl, ChannelOf(pg.roomCode)) ELSE cl,
   page |-> [pg EXCEPT !.pusherChannel = FALSE]]

\* loadRoomDetail(roomCode) once getRoomDetail has settled: a divided or a
\* closed room unsubscribes, a waiting room and a failed request do not
loadRoomDetail(cl, pg, outcome) ==
  IF outcome \in {"divided", "closed"} THEN unsubscribePusher(cl, pg)
  ELSE [client |-> cl, page |-> pg]

\* what neither the page nor the client touches
service == <<rooms, members, nextId, events, calls, ncalls, trace, resp, solver, pusher, polling>>

\* onLoad(options) up to its await: without a room code the page goes back,
\* else setData({roomCode}) and loadRoomDetail is awaited
OnLoad ==
  /\ page.phase = "new"
  /\ \E roomCode \in Codes \cup {""} :
       page' = [page EXCEPT !.phase = "open", !.roomCode = roomCode, !.loading = roomCode # ""]
  /\ UNCHANGED <<client, service>>

\* getRoomDetail settles: the rest of loadRoomDetail, then the rest of onLoad,
\* which is subscribePusher(roomCode)
LoadRoomDetailSettled ==
  /\ page.loading
  /\ \E outcome \in {"waiting", "divided", "closed", "error"} :
       \E loaded \in {loadRoomDetail(client, [page EXCEPT !.loading = FALSE], outcome)} :
         \E s \in SocketChoices(loaded.client) :
           \E done \in {subscribePusher(loaded.client, loaded.page, page.roomCode, s)} :
             /\ client' = done.client
             /\ page' = done.page
  /\ UNCHANGED service

\* onShow(): subscribePusher when the page has a room code and no channel
OnShow ==
  /\ page.phase = "open"
  /\ page.roomCode # ""
  /\ ~page.pusherChannel
  /\ \E s \in SocketChoices(client) :
       \E done \in {subscribePusher(client, page, page.roomCode, s)} :
         /\ client' = done.client
         /\ page' = done.page
  /\ UNCHANGED service

\* onUnload(): unsubscribePusher()
OnUnload ==
  /\ page.phase = "open"
  /\ \E done \in {unsubscribePusher(client, [page EXCEPT !.phase = "unloaded"])} :
       /\ client' = done.client
       /\ page' = done.page
  /\ UNCHANGED service

\* room-closed or teams-divided arrives on the channel of the page: the
\* callbacks bound under the name run, and each calls unsubscribePusher()
RoomChannelEvent ==
  /\ page.roomCode # ""
  /\ \E e \in {"room-closed", "teams-divided"} :
       /\ ChannelOf(page.roomCode) \in client.channels
       /\ Receiving(client, ChannelOf(page.roomCode)) # {}
       /\ client.callbacks[ChannelOf(page.roomCode)][e] > 0
       /\ \E done \in {unsubscribePusher(handleEvent(client, ChannelOf(page.roomCode)), page)} :
            /\ client' = done.client
            /\ page' = done.page
  /\ UNCHANGED service

PageInit ==
  /\ rooms = [code \in Codes |-> NoRoom]
  /\ members = <<>>
  /\ nextId = 1
  /\ events = <<>>
  /\ calls = [p \in Slots |-> Idle]
  /\ ncalls = 0
  /\ trace = "off"
  /\ resp = <<>>
  /\ solver = Null
  /\ pusher = TRUE
  /\ client = NewClient
  /\ page = NewPage
  /\ polling = Null

PageNext ==
  \/ OnLoad
  \/ LoadRoomDetailSettled
  \/ OnShow
  \/ OnUnload
  \/ RoomChannelEvent
  \/ Established
  \/ SocketClosed
  \/ ReconnectTimer

PageSpec == PageInit /\ [][PageNext]_vars

\* C39: at most one callback per event name is bound on the channel of the
\* room page, also when onShow runs while the asynchronous onLoad still awaits
\* loadRoomDetail and both reach subscribePusher.
C39_OneCallbackPerEvent ==
  \A name \in Channels : \A e \in BoundEvents : client.callbacks[name][e] <= 1

(***************************************************************************)
(* The polling service (utils/polling.ts)                                  *)
(***************************************************************************)
\* start() calls in one run, and fetches one task has in flight at once
MaxStarts == 3

MaxFetching == 2

PollKeys == {"k1", "k2"}

\* a start() call, which names the timer it set and the callback it was given
Starts == 1..MaxStarts

\* new PollingService(): the tasks map (per key the start that registered the
\* task, 0 for none), the interval timers not cleared, the key of every start,
\* the fetches in flight per start, and the start whose callback ran in the
\* last step (0 for none)
NewPolling ==
  [started |-> 0, tasks |-> [key \in PollKeys |-> 0], timers |-> {},
   keyOf |-> [n \in Starts |-> ""], fetching |-> [n \in Starts |-> 0], invoked |-> 0]

\* stop(key): clearInterval of the task's timer and removal of the task
stop(po, key) ==
  IF po.tasks[key] = 0 THEN po
  ELSE [po EXCEPT !.timers = @ \ {po.tasks[key]}, !.tasks[key] = 0]

\* execute(fetchFn, callback) up to its await: the fetch of start n is in flight
execute(po, n) == [po EXCEPT !.fetching[n] = @ + 1]

\* start(key, fetchFn, callback, interval): stop(key), execute once,
\* setInterval and tasks.set
start(po, key) ==
  LET n == po.started + 1
      fetched == execute(stop(po, key), n)
  IN  [fetched EXCEPT !.started = n, !.keyOf[n] = key, !.timers = @ \cup {n}, !.tasks[key] = n]

\* stopAll(): stop(key) for every key of the map
stopAll(po) == [po EXCEPT !.timers = @ \ {po.tasks[key] : key \in PollKeys},
                          !.tasks = [key \in PollKeys |-> 0]]

\* what the polling service does not touch
around == <<rooms, members, nextId, events, calls, ncalls, trace, resp, solver, pusher,
            client, page>>

Start ==
  /\ polling.started < MaxStarts
  /\ \E key \in PollKeys : polling' = [start(polling, key) EXCEPT !.invoked = 0]
  /\ UNCHANGED around

Stop ==
  /\ \E key \in PollKeys :
       /\ polling.tasks[key] # 0
       /\ polling' = [stop(polling, key) EXCEPT !.invoked = 0]
  /\ UNCHANGED around

StopAll ==
  /\ \E key \in PollKeys : polling.tasks[key] # 0
  /\ polling' = [stopAll(polling) EXCEPT !.invoked = 0]
  /\ UNCHANGED around

\* an interval timer that was not cleared fires: execute(fetchFn, callback)
TimerFires ==
  /\ \E n \in polling.timers :
       /\ polling.fetching[n] < MaxFetching
       /\ polling' = [execute(polling, n) EXCEPT !.invoked = 0]
  /\ UNCHANGED around

\* trigger(key): execute with the fetchFn and the callback of the task
Trigger ==
  /\ \E key \in PollKeys :
       /\ polling.tasks[key] # 0
       /\ polling.fetching[polling.tasks[key]] < MaxFetching
       /\ polling' = [execute(polling, polling.tasks[key]) EXCEPT !.invoked = 0]
  /\ UNCHANGED around

\* the rest of execute when fetchFn resolves: callback(data)
FetchResolved ==
  /\ \E n \in Starts :
       /\ polling.fetching[n] > 0
       /\ polling' = [polling EXCEPT !.fetching[n] = @ - 1, !.invoked = n]
  /\ UNCHANGED around

\* the rest of execute when fetchFn rejects: the error is logged
FetchRejected ==
  /\ \E n \in Starts :
       /\ polling.fetching[n] > 0
       /\ polling' = [polling EXCEPT !.fetching[n] = @ - 1, !.invoked = 0]
  /\ UNCHANGED around

PollingInit ==
  /\ rooms = [code \in Codes |-> NoRoom]
  /\ members = <<>>
  /\ nextId = 1
  /\ events = <<>>
  /\ calls = [p \in Slots |-> Idle]
  /\ ncalls = 0
  /\ trace = "off"
  /\ resp = <<>>
  /\ solver = Null
  /\ pusher = TRUE
  /\ client = Null
  /\ page = Null
  /\ polling = NewPolling

PollingNext ==
  \/ Start
  \/ Stop
  \/ StopAll
  \/ TimerFires
  \/ Trigger
  \/ FetchResolved
  \/ FetchRejected

PollingSpec == PollingInit /\ [][PollingNext]_vars

\* the interval timers of a key that were set and not cleared
TimersOf(key) == {n \in polling.timers : polling.keyOf[n] = key}

\* C40: at most one interval timer exists per key, and after stop(key) the
\* callback registered for that key is never invoked again, also when a fetch
\* started before the stop resolves after it: a callback only runs while the
\* task it was registered with is in the map.
C40_NoCallbackAfterStop ==
  /\ \A key \in PollKeys : Cardinality(TimersOf(key)) <= 1
  /\ polling.invoked # 0 => polling.tasks[polling.keyOf[polling.invoked]] = polling.invoked

\* the timers alone: one per key at most
OneTimerPerKey == \A key \in PollKeys : Cardinality(TimersOf(key)) <= 1

====
